---- MODULE Spec2Model ----
(***************************************************************************)
(* pg-sql2: the SQL fragment algebra and its compiler                      *)
(* (src/unnamed/part_000).                                                 *)
(*                                                                         *)
(* JavaScript strings are modelled as sequences of one-character strings,  *)
(* so that escaping, mangling and the regular expressions of the source    *)
(* are computed character by character.  JavaScript values are records:    *)
(* every value has a field `type` (what `x.type` evaluates to, the string  *)
(* "undefined" when the property is absent) and a field `trusted` (whether *)
(* `x[$$trusted] === true`).                                               *)
(***************************************************************************)
EXTENDS Integers, Sequences, FiniteSets, TLC

(***************************************************************************)
(* Characters and strings                                                  *)
(***************************************************************************)
LOWER == <<"a","b","c","d","e","f","g","h","i","j","k","l","m",
           "n","o","p","q","r","s","t","u","v","w","x","y","z">>

UPPER == <<"A","B","C","D","E","F","G","H","I","J","K","L","M",
           "N","O","P","Q","R","S","T","U","V","W","X","Y","Z">>

DIGITS == <<"0","1","2","3","4","5","6","7","8","9">>

Range(s) == {s[i] : i \in DOMAIN s}

IsLower(c) == c \in Range(LOWER)

IsUpper(c) == c \in Range(UPPER)

IsDigit(c) == c \in Range(DIGITS)

ToLowerCase(c) == IF IsUpper(c) THEN LOWER[CHOOSE i \in DOMAIN UPPER : UPPER[i] = c] ELSE c

\* JavaScript's \s, as far as the texts of this model go.
IsSpace(c) == c \in {" ", "\n", "\t"}

RECURSIVE Concat(_)
\* Array.prototype.join(""): the concatenation of a sequence of strings.
Concat(ss) == IF ss = <<>> THEN <<>> ELSE Head(ss) \o Concat(Tail(ss))

RECURSIVE JoinWith(_, _)
\* Array.prototype.join(sep)
JoinWith(ss, sep) ==
  IF ss = <<>> THEN <<>>
  ELSE IF Len(ss) = 1 THEN ss[1]
  ELSE ss[1] \o sep \o JoinWith(Tail(ss), sep)

RECURSIVE NatToString(_)
\* "" + n for a non-negative integer n
NatToString(n) ==
  IF n < 10 THEN <<DIGITS[n + 1]>>
  ELSE NatToString(n \div 10) \o <<DIGITS[(n % 10) + 1]>>

RECURSIVE Repeat(_, _)
\* String.prototype.repeat
Repeat(s, n) == IF n = 0 THEN <<>> ELSE s \o Repeat(s, n - 1)

EndsWith(s, c) == Len(s) > 0 /\ s[Len(s)] = c

(***************************************************************************)
(* mangleName (lines 184-206)                                              *)
(***************************************************************************)
RECURSIVE ReplaceUpper(_)
\* .replace(/[A-Z]/g, (l) => `_${l.toLowerCase()}`)
ReplaceUpper(s) ==
  IF s = <<>> THEN <<>>
  ELSE (IF IsUpper(Head(s)) THEN <<"_", ToLowerCase(Head(s))>> ELSE <<Head(s)>>)
       \o ReplaceUpper(Tail(s))

IsSafeChar(c) == IsLower(c) \/ IsDigit(c) \/ c = "_"

RECURSIVE ReplaceUnsafeRuns(_, _)
\* .replace(/[^a-z0-9_]+/g, "_"); inRun: the previous character was replaced
ReplaceUnsafeRuns(s, inRun) ==
  IF s = <<>> THEN <<>>
  ELSE IF IsSafeChar(Head(s)) THEN <<Head(s)>> \o ReplaceUnsafeRuns(Tail(s), FALSE)
  ELSE (IF inRun THEN <<>> ELSE <<"_">>) \o ReplaceUnsafeRuns(Tail(s), TRUE)

RECURSIVE CollapseUnderscores(_, _)
\* .replace(/__+/g, "_")
CollapseUnderscores(s, prevUnderscore) ==
  IF s = <<>> THEN <<>>
  ELSE IF Head(s) = "_"
       THEN (IF prevUnderscore THEN <<>> ELSE <<"_">>) \o CollapseUnderscores(Tail(s), TRUE)
       ELSE <<Head(s)>> \o CollapseUnderscores(Tail(s), FALSE)

\* .replace(/^_/, "")
StripLeadingUnderscore(s) == IF s # <<>> /\ Head(s) = "_" THEN Tail(s) ELSE s

\* .replace(/_$/, "")
StripTrailingUnderscore(s) == IF EndsWith(s, "_") THEN SubSeq(s, 1, Len(s) - 1) ELSE s

\* .substr(0, 50)
MANGLE_MAX == 50

Substr0(s, n) == IF Len(s) > n THEN SubSeq(s, 1, n) ELSE s

LOCAL_NAME == <<"l","o","c","a","l">>

mangleName(str) ==
  LET m == StripTrailingUnderscore(
             Substr0(
               StripLeadingUnderscore(
                 CollapseUnderscores(ReplaceUnsafeRuns(ReplaceUpper(str), FALSE), FALSE)),
               MANGLE_MAX))
  IN IF m = <<>> THEN LOCAL_NAME ELSE m

\* A JavaScript symbol: an identity and a description.
Sym(id, description) == [js |-> "symbol", id |-> id, description |-> description,
                         type |-> "undefined", trusted |-> FALSE]

\* symbol.description || "local"
getSymbolAndName(symbol) ==
  [js |-> "object", s |-> symbol,
   n |-> mangleName(IF symbol.description = <<>> THEN LOCAL_NAME ELSE symbol.description)]

(***************************************************************************)
(* escapeSqlIdentifier (lines 233-235)                                     *)
(***************************************************************************)
RECURSIVE DoubleQuotes(_)
\* str.replace(/"/g, '""')
DoubleQuotes(s) ==
  IF s = <<>> THEN <<>>
  ELSE (IF Head(s) = "\"" THEN <<"\"", "\"">> ELSE <<Head(s)>>) \o DoubleQuotes(Tail(s))

\* escapeSqlIdentifier without the doubling of embedded double quotes.
escapeSqlIdentifierNoDoubling(str) == <<"\"">> \o str \o <<"\"">>

escapeSqlIdentifier(str) == <<"\"">> \o DoubleQuotes(str) \o <<"\"">>

(***************************************************************************)
(* JavaScript values                                                       *)
(***************************************************************************)
Undefined == [js |-> "undefined", type |-> "undefined", trusted |-> FALSE]

Null == [js |-> "null", type |-> "undefined", trusted |-> FALSE]

Str(chars) == [js |-> "string", str |-> chars, type |-> "undefined", trusted |-> FALSE]

Bool(b) == [js |-> "boolean", bool |-> b, type |-> "undefined", trusted |-> FALSE]

\* A finite number: its sign, its integer part and the digits of its fraction
\* (<<>> for an integer).
Num(neg, int, frac) ==
  [js |-> "number", kind |-> "finite", neg |-> neg, int |-> int, frac |-> frac,
   type |-> "undefined", trusted |-> FALSE]

NaN == [js |-> "number", kind |-> "NaN", type |-> "undefined", trusted |-> FALSE]

Infinity == [js |-> "number", kind |-> "Infinity", type |-> "undefined", trusted |-> FALSE]

Arr(items) == [js |-> "array", items |-> items, type |-> "undefined", trusted |-> FALSE]

\* A plain object { key: ... } that is no fragment.
PlainObject(key) == [js |-> "object", key |-> key, type |-> "undefined", trusted |-> FALSE]

IsNullish(v) == v.js \in {"undefined", "null"}

\* "" + val for a finite number
NumberToString(val) ==
  (IF val.neg /\ (val.int # 0 \/ val.frac # <<>>) THEN <<"-">> ELSE <<>>)
  \o NatToString(val.int)
  \o (IF val.frac = <<>> THEN <<>> ELSE <<".">> \o val.frac)

\* A thrown error, and a normal return.
Threw(kind) == [threw |-> kind]

Returned(v) == [threw |-> "none", value |-> v]

(***************************************************************************)
(* Node factories (lines 237-323) and the trust check (lines 325-343)      *)
(***************************************************************************)
makeRawNode(text) ==
  [js |-> "object", type |-> "RAW", text |-> text, trusted |-> TRUE]

makeIdentifierNode(names) ==
  [js |-> "object", type |-> "IDENTIFIER", names |-> names, trusted |-> TRUE]

makeValueNode(rawValue) ==
  [js |-> "object", type |-> "VALUE", value |-> rawValue, trusted |-> TRUE]

makeIndentNode(content) ==
  [js |-> "object", type |-> "INDENT", content |-> content, trusted |-> TRUE]

makeParensNode(content, force) ==
  [js |-> "object", type |-> "PARENS", content |-> content, force |-> force,
   trusted |-> TRUE]

makeSymbolAliasNode(a, b) ==
  [js |-> "object", type |-> "SYMBOL_ALIAS", a |-> getSymbolAndName(a),
   b |-> getSymbolAndName(b), trusted |-> TRUE]

makePlaceholderNode(symbol, fallback) ==
  [js |-> "object", type |-> "PLACEHOLDER", symbol |-> symbol, fallback |-> fallback,
   trusted |-> TRUE]

makeQueryNode(nodes) ==
  [js |-> "object", type |-> "QUERY", nodes |-> nodes, flags |-> 0, trusted |-> TRUE]

\* isSQL without the test of the trust mark.
isSQLWithoutMark(node) == node.js = "object"

\* typeof node === "object" && node !== null && node[$$trusted] === true
isSQL(node) == node.js = "object" /\ node.trusted = TRUE

enforceValidNode(node) == IF isSQL(node) THEN Returned(node) ELSE Threw("InvalidFragment")

trueNode == makeRawNode(<<"T","R","U","E">>)

falseNode == makeRawNode(<<"F","A","L","S","E">>)

nullNode == makeRawNode(<<"N","U","L","L">>)

blank == makeRawNode(<<>>)

(***************************************************************************)
(* Constructors (lines 561-855)                                            *)
(***************************************************************************)
\* identifier(...names), lines 655-685
IdentifierPartOk(name) == name.js \in {"string", "symbol"}

IdentifierPart(name) ==
  IF name.js = "string" THEN Str(escapeSqlIdentifier(name.str)) ELSE getSymbolAndName(name)

identifier(names) ==
  IF Len(names) = 0 THEN Threw("EmptyIdentifier")
  ELSE IF \E i \in DOMAIN names : ~IdentifierPartOk(names[i]) THEN Threw("InvalidArgument")
  ELSE Returned(makeIdentifierNode([i \in DOMAIN names |-> IdentifierPart(names[i])]))

\* value(val), lines 691-693
value(val) == Returned(makeValueNode(val))

\* IsLiteralChar with the single quote among the inline characters.
IsLiteralCharWithQuote(c) ==
  \/ c = "-"
  \/ IsLower(c)
  \/ IsUpper(c)
  \/ IsDigit(c)
  \/ c \in {"_", "@", "!", "$", " ", ":", "\"", ".", "'"}

\* /^[-a-zA-Z0-9_@!$ :".]*$/
IsLiteralChar(c) ==
  \/ c = "-"
  \/ IsLower(c)
  \/ IsUpper(c)
  \/ IsDigit(c)
  \/ c \in {"_", "@", "!", "$", " ", ":", "\"", "."}

MatchesLiteral(chars) == \A i \in DOMAIN chars : IsLiteralChar(chars[i])

\* literal(val), lines 704-726
literal(val) ==
  IF val.js = "string" /\ MatchesLiteral(val.str)
  THEN Returned(makeRawNode(<<"'">> \o val.str \o <<"'">>))
  ELSE IF val.js = "number" /\ val.kind = "finite"
  THEN IF val.frac = <<>>
       THEN Returned(makeRawNode(NumberToString(val)))
       ELSE Returned(makeRawNode(<<"'">> \o NumberToString(val)
                                  \o <<"'", ":", ":", "f", "l", "o", "a", "t">>))
  ELSE IF val.js = "boolean"
  THEN Returned(IF val.bool THEN trueNode ELSE falseNode)
  ELSE IF IsNullish(val)
  THEN Returned(nullNode)
  ELSE value(val)

RECURSIVE JoinLoop(_, _, _, _)
\* the loop of join, lines 761-777: i is the 1-based index of the next item
JoinLoop(items, sepNode, i, currentItems) ==
  IF i > Len(items) THEN Returned(makeQueryNode(currentItems))
  ELSE IF ~isSQL(items[i]) THEN Threw("InvalidFragment")
  ELSE LET withSep == IF i > 1 /\ sepNode.text # <<>>
                      THEN Append(currentItems, sepNode) ELSE currentItems
       IN  JoinLoop(items, sepNode, i + 1,
                    IF items[i].type = "QUERY" THEN withSep \o items[i].nodes
                    ELSE Append(withSep, items[i]))

\* join pushing a Query item as one node instead of its nodes.
joinWithoutInlining(items, separator) ==
  IF items.js # "array" THEN Threw("InvalidArgument")
  ELSE IF separator.js # "string" THEN Threw("InvalidArgument")
  ELSE IF Len(items.items) = 0 THEN Returned(blank)
  ELSE IF Len(items.items) = 1 THEN enforceValidNode(items.items[1])
  ELSE IF \E i \in DOMAIN items.items : ~isSQL(items.items[i]) THEN Threw("InvalidFragment")
  ELSE Returned(makeQueryNode(Concat(
         [k \in 1..(2 * Len(items.items) - 1) |->
            IF k % 2 = 1 THEN <<items.items[(k + 1) \div 2]>>
            ELSE IF Len(separator.str) > 0 THEN <<makeRawNode(separator.str)>>
            ELSE <<>>])))

\* join(items, separator), lines 733-779
join(items, separator) ==
  IF items.js # "array" THEN Threw("InvalidArgument")
  ELSE IF separator.js # "string" THEN Threw("InvalidArgument")
  ELSE IF Len(items.items) = 0 THEN Returned(blank)
  ELSE IF Len(items.items) = 1 THEN enforceValidNode(items.items[1])
  ELSE JoinLoop(items.items,
                IF Len(separator.str) > 0 THEN makeRawNode(separator.str) ELSE blank,
                1, <<>>)

\* Inserted pushing a Query as one node.
InsertedWhole(items, valid) == Append(items, valid)

\* The items once the value `valid` is inserted, lines 598-613: the nodes of a
\* Query are copied in its place
Inserted(items, valid) ==
  IF valid.type = "QUERY" THEN items \o valid.nodes ELSE Append(items, valid)

RECURSIVE TemplateLoop(_, _, _, _)
\* the loop of the template tag, lines 584-618: i is the 1-based index of the
\* next text piece
TemplateLoop(strings, values, i, items) ==
  IF i > Len(strings) THEN Returned(makeQueryNode(items))
  ELSE IF strings[i].js # "string" THEN Threw("InvalidArgument")
  ELSE LET withText == IF Len(strings[i].str) > 0
                       THEN Append(items, makeRawNode(strings[i].str)) ELSE items
       IN  IF i = Len(strings) THEN Returned(makeQueryNode(withText))
           ELSE IF ~isSQL(values[i]) THEN Threw("InvalidFragment")
           ELSE TemplateLoop(strings, values, i + 1, Inserted(withText, values[i]))

\* sql`...`, lines 561-620: strings are the text pieces, values the fragments
\* between them (one fewer)
sqlBase(strings, values) ==
  IF Len(strings) = 1
  THEN IF strings[1].js # "string" THEN Threw("InvalidArgument")
       ELSE IF strings[1].str = <<>> THEN Returned(blank)
       ELSE Returned(makeRawNode(strings[1].str))
  ELSE TemplateLoop(strings, values, 1, <<>>)

\* indent(fragment), lines 786-795
indent(isDevMode, fragment) == IF isDevMode THEN makeIndentNode(fragment) ELSE fragment

\* indentIf(condition, fragment), lines 797-799
indentIf(isDevMode, condition, fragment) ==
  IF isDevMode /\ condition THEN makeIndentNode(fragment) ELSE fragment

\* parens adding a Parens node whatever it is given.
parensAlwaysWrapping(fragment, force) == Returned(makeParensNode(fragment, force))

RECURSIVE parens(_, _)
\* parens(fragment, force), lines 805-844.  Reading a property of undefined or
\* null is a TypeError; the property `type` of any other value that is no
\* fragment is whatever the value carries.
parens(fragment, force) ==
  IF IsNullish(fragment) THEN Threw("TypeError")
  ELSE IF fragment.type = "QUERY"
  THEN IF Len(fragment.nodes) = 0 THEN Threw("EmptyParens")
       ELSE IF Len(fragment.nodes) = 1 THEN parens(fragment.nodes[1], force)
       ELSE Returned(makeParensNode(fragment, force))
  ELSE IF fragment.type = "PARENS"
  THEN IF fragment.force \/ ~force THEN Returned(fragment)
       ELSE parens(fragment.content, TRUE)
  ELSE IF fragment.type = "INDENT"
  THEN IF IsNullish(fragment.content) THEN Threw("TypeError")
       ELSE IF fragment.content.type = "QUERY"
       THEN IF /\ Len(fragment.content.nodes) = 1
               /\ fragment.content.nodes[1].type = "PARENS"
               /\ ~fragment.content.nodes[1].force
            THEN Returned(makeParensNode(fragment.content.nodes[1].content, force))
            ELSE Returned(makeParensNode(fragment, force))
       ELSE IF fragment.content.type = "PARENS" /\ ~fragment.content.force
       THEN Returned(makeParensNode(fragment.content.content, force))
       ELSE Returned(makeParensNode(fragment, force))
  ELSE Returned(makeParensNode(fragment, force))

\* symbolAlias(symbol1, symbol2), lines 846-848
symbolAlias(symbol1, symbol2) == makeSymbolAliasNode(symbol1, symbol2)

\* placeholder(symbol, fallback), lines 850-855
placeholder(symbol, fallback) == makePlaceholderNode(symbol, fallback)

(***************************************************************************)
(* Structural equivalence (lines 857-962, 1048-1097)                       *)
(***************************************************************************)
\* a === b on objects: the model's values carry no address, so two objects
\* are the same reference when they are the same value; inputs that must be
\* distinct instances of equal content carry a distinguishing `ref` field.
SameReference(a, b) == a = b

IsZero(v) == v.js = "number" /\ v.kind = "finite" /\ v.int = 0 /\ v.frac = <<>>

\* a === b on arbitrary values
StrictEquals(a, b) ==
  IF a.js = "number" /\ a.kind = "NaN" THEN FALSE
  ELSE IF IsZero(a) /\ IsZero(b) THEN TRUE
  ELSE SameReference(a, b)

\* for (let i = 0; i < 1000; i++)
SUBSTITUTE_DEPTH == 1000

\* The loop of getSubstitute between two iterations: the handle reached and
\* the handles passed, or what the function has returned or thrown.
Looping(symbol, path) == [done |-> FALSE, symbol |-> symbol, path |-> path]

Ended(result) == [done |-> TRUE, result |-> result]

\* One iteration without the test for a handle passed before.
GetSubstituteBodyUnchecked(st, symbolSubstitutes) ==
  IF st.symbol \notin DOMAIN symbolSubstitutes
  THEN Ended(Returned(st.symbol))
  ELSE IF symbolSubstitutes[st.symbol] = st.symbol
  THEN Ended(Threw("SelfSubstitution"))
  ELSE Looping(symbolSubstitutes[st.symbol], Append(st.path, st.symbol))

\* One iteration of the loop, lines 1055-1074
GetSubstituteBody(st, symbolSubstitutes) ==
  IF st.symbol \in Range(st.path)
  THEN Ended(Threw("SubstitutionCycle"))
  ELSE IF st.symbol \notin DOMAIN symbolSubstitutes
  THEN Ended(Returned(st.symbol))
  ELSE IF symbolSubstitutes[st.symbol] = st.symbol
  THEN Ended(Threw("SelfSubstitution"))
  ELSE Looping(symbolSubstitutes[st.symbol], Append(st.path, st.symbol))

RECURSIVE GetSubstituteLoop(_, _, _)
\* n iterations of the loop from st, fewer when one of them returns or
\* throws: the first half of them, then the rest
GetSubstituteLoop(st, n, symbolSubstitutes) ==
  IF st.done \/ n = 0 THEN st
  ELSE IF n = 1 THEN GetSubstituteBody(st, symbolSubstitutes)
  ELSE LET firstHalf == GetSubstituteLoop(st, n \div 2, symbolSubstitutes)
       IN  GetSubstituteLoop(firstHalf, n - (n \div 2), symbolSubstitutes)

\* getSubstitute(initialSymbol, symbolSubstitutes), lines 1048-1077; an absent
\* map is the empty map
getSubstitute(initialSymbol, symbolSubstitutes) ==
  LET end == GetSubstituteLoop(Looping(initialSymbol, <<>>),
                               SUBSTITUTE_DEPTH, symbolSubstitutes)
  IN  IF end.done THEN end.result ELSE Threw("SubstitutionTooDeep")

\* the comparison of two substituted handles, as lines 947-949 and 1093-1095
SubstitutesMatch(s1, s2, symbolSubstitutes) ==
  LET symbol1 == getSubstitute(s1, symbolSubstitutes)
  IN  IF symbol1.threw # "none" THEN symbol1
      ELSE LET symbol2 == getSubstitute(s2, symbolSubstitutes)
           IN  IF symbol2.threw # "none" THEN symbol2
               ELSE Returned(symbol1.value = symbol2.value)

\* identifiersAreEquivalent comparing the handles only, not the names.
identifiersAreEquivalentBySymbolOnly(ids1, ids2, symbolSubstitutes) ==
  IF ids1.js = "string" THEN Returned(ids2.js = "string" /\ ids2.str = ids1.str)
  ELSE IF ids2.js = "string" THEN Returned(FALSE)
  ELSE SubstitutesMatch(ids1.s, ids2.s, symbolSubstitutes)

\* identifiersAreEquivalent(ids1, ids2, symbolSubstitutes), lines 1082-1097
identifiersAreEquivalent(ids1, ids2, symbolSubstitutes) ==
  IF ids1.js = "string" THEN Returned(ids2.js = "string" /\ ids2.str = ids1.str)
  ELSE IF ids2.js = "string" THEN Returned(FALSE)
  ELSE LET symbolsMatch == SubstitutesMatch(ids1.s, ids2.s, symbolSubstitutes)
       IN  IF symbolsMatch.threw # "none" THEN symbolsMatch
           ELSE Returned(ids1.n = ids2.n /\ symbolsMatch.value)

RECURSIVE NamesMatch(_, _, _, _)
\* arraysMatch over the parts of two identifiers, lines 857-875 and 939-941
NamesMatch(names1, names2, i, symbolSubstitutes) ==
  IF i > Len(names1) THEN Returned(TRUE)
  ELSE LET r == identifiersAreEquivalent(names1[i], names2[i], symbolSubstitutes)
       IN  IF r.threw # "none" THEN r
           ELSE IF ~r.value THEN Returned(FALSE)
           ELSE NamesMatch(names1, names2, i + 1, symbolSubstitutes)

RECURSIVE isEquivalent(_, _, _)
RECURSIVE NodesMatch(_, _, _, _)
\* arraysMatch over the nodes of two queries, lines 857-875 and 901-903
NodesMatch(nodes1, nodes2, i, symbolSubstitutes) ==
  IF i > Len(nodes1) THEN Returned(TRUE)
  ELSE LET r == isEquivalent(nodes1[i], nodes2[i], symbolSubstitutes)
       IN  IF r.threw # "none" THEN r
           ELSE IF ~r.value THEN Returned(FALSE)
           ELSE NodesMatch(nodes1, nodes2, i + 1, symbolSubstitutes)

\* isEquivalent(sql1, sql2, { symbolSubstitutes }), lines 877-962
isEquivalent(sql1, sql2, symbolSubstitutes) ==
  IF SameReference(sql1, sql2) THEN Returned(TRUE)
  ELSE IF sql1.js = "symbol"
  THEN IF sql1 \in DOMAIN symbolSubstitutes
       THEN Returned(SameReference(symbolSubstitutes[sql1], sql2))
       ELSE Returned(FALSE)
  ELSE IF sql2.js = "symbol" THEN Returned(FALSE)
  ELSE IF IsNullish(sql1) \/ IsNullish(sql2) THEN Threw("TypeError")
  ELSE IF sql1.type = "QUERY"
  THEN IF sql2.type # "QUERY" THEN Returned(FALSE)
       ELSE IF Len(sql1.nodes) # Len(sql2.nodes) THEN Returned(FALSE)
       ELSE NodesMatch(sql1.nodes, sql2.nodes, 1, symbolSubstitutes)
  ELSE IF sql2.type = "QUERY" THEN Returned(FALSE)
  ELSE IF sql1.type \notin {"RAW", "VALUE", "INDENT", "PARENS", "IDENTIFIER",
                            "PLACEHOLDER", "SYMBOL_ALIAS"}
  THEN Returned(FALSE)
  ELSE IF sql2.type # sql1.type THEN Returned(FALSE)
  ELSE CASE sql1.type = "RAW" -> Returned(sql1.text = sql2.text)
         [] sql1.type = "VALUE" -> Returned(StrictEquals(sql1.value, sql2.value))
         [] sql1.type = "INDENT" ->
              isEquivalent(sql1.content, sql2.content, symbolSubstitutes)
         [] sql1.type = "PARENS" ->
              IF sql2.force # sql1.force THEN Returned(FALSE)
              ELSE isEquivalent(sql1.content, sql2.content, symbolSubstitutes)
         [] sql1.type = "IDENTIFIER" ->
              IF Len(sql1.names) # Len(sql2.names) THEN Returned(FALSE)
              ELSE NamesMatch(sql1.names, sql2.names, 1, symbolSubstitutes)
         [] sql1.type = "PLACEHOLDER" ->
              SubstitutesMatch(sql1.symbol, sql2.symbol, symbolSubstitutes)
         [] sql1.type = "SYMBOL_ALIAS" -> Returned(FALSE)

(***************************************************************************)
(* Symbol rewriter (lines 964-1043).  Each operator returns the value and  *)
(* `same`: whether the value is the very instance it was given, which is   *)
(* what `newNode !== node` reads.                                          *)
(***************************************************************************)
Kept(v) == [threw |-> "none", value |-> v, same |-> TRUE]

Fresh(v) == [threw |-> "none", value |-> v, same |-> FALSE]

ReplaceName(v, needle, replacement) ==
  IF v.js # "string" /\ v.s = needle THEN getSymbolAndName(replacement) ELSE v

\* The SymbolAlias case rebuilding the node whether or not a side changed.
ReplaceInAliasAlwaysRebuilding(frag, needle, replacement) ==
  Fresh(makeSymbolAliasNode(IF frag.a.s = needle THEN replacement ELSE frag.a.s,
                            IF frag.b.s = needle THEN replacement ELSE frag.b.s))

\* case "SYMBOL_ALIAS" of replaceSymbolInNode, lines 1000-1008
ReplaceInAlias(frag, needle, replacement) ==
  LET newA == IF frag.a.s = needle THEN replacement ELSE frag.a.s
      newB == IF frag.b.s = needle THEN replacement ELSE frag.b.s
  IN  IF newA # frag.a.s \/ newB # frag.b.s
      THEN Fresh(makeSymbolAliasNode(newA, newB))
      ELSE Kept(frag)

RECURSIVE replaceSymbol(_, _, _)
RECURSIVE replaceSymbolInNode(_, _, _)
RECURSIVE ReplaceNodes(_, _, _, _, _, _)
\* frag.nodes.map(...) of replaceSymbol, lines 1031-1039
ReplaceNodes(nodes, needle, replacement, i, newNodes, changed) ==
  IF i > Len(nodes) THEN [threw |-> "none", nodes |-> newNodes, changed |-> changed]
  ELSE LET r == replaceSymbolInNode(nodes[i], needle, replacement)
       IN  IF r.threw # "none" THEN r
           ELSE ReplaceNodes(nodes, needle, replacement, i + 1,
                             Append(newNodes, r.value), changed \/ ~r.same)

\* replaceSymbolInNode(frag, needle, replacement), lines 964-1020
replaceSymbolInNode(frag, needle, replacement) ==
  CASE frag.type = "RAW" -> Kept(frag)
    [] frag.type = "IDENTIFIER" ->
         IF \E i \in DOMAIN frag.names :
              frag.names[i].js # "string" /\ frag.names[i].s = needle
         THEN Fresh(makeIdentifierNode(
                [i \in DOMAIN frag.names |-> ReplaceName(frag.names[i], needle, replacement)]))
         ELSE Kept(frag)
    [] frag.type = "VALUE" ->
         IF StrictEquals(frag.value, needle) THEN Fresh(makeValueNode(replacement))
         ELSE Kept(frag)
    [] frag.type = "INDENT" ->
         LET r == replaceSymbol(frag.content, needle, replacement)
         IN  IF r.threw # "none" THEN r ELSE Fresh(makeIndentNode(r.value))
    [] frag.type = "PARENS" ->
         LET r == replaceSymbol(frag.content, needle, replacement)
         IN  IF r.threw # "none" THEN r ELSE Fresh(makeParensNode(r.value, frag.force))
    [] frag.type = "SYMBOL_ALIAS" -> ReplaceInAlias(frag, needle, replacement)
    [] frag.type = "PLACEHOLDER" ->
         IF frag.symbol = needle
         THEN Fresh(makePlaceholderNode(replacement, frag.fallback))
         ELSE Kept(frag)
    [] OTHER -> Threw("UnhandledType")

\* replaceSymbol(frag, needle, replacement), lines 1025-1043
replaceSymbol(frag, needle, replacement) ==
  IF IsNullish(frag) THEN Threw("TypeError")
  ELSE IF frag.type = "QUERY"
  THEN LET r == ReplaceNodes(frag.nodes, needle, replacement, 1, <<>>, FALSE)
       IN  IF r.threw # "none" THEN r
           ELSE IF r.changed THEN Fresh(makeQueryNode(r.nodes))
           ELSE Kept(frag)
  ELSE replaceSymbolInNode(frag, needle, replacement)

(***************************************************************************)
(* The two caches of Raw nodes (lines 176, 237-260, 551, 570-582).  The    *)
(* source of LRU is not in the repository at hand: it is modelled as the   *)
(* bounded cache of most recently used entries that its name and its use   *)
(* describe, get() making the entry it finds the most recent one and set() *)
(* dropping the least recent entries beyond maxLength.  The entries are    *)
(* kept most recent first.                                                 *)
(***************************************************************************)
\* The k-th instance of an object: two objects of equal content that are not
\* the same reference differ in `ref`.
Instance(v, k) == [f \in DOMAIN v \cup {"ref"} |-> IF f = "ref" THEN k ELSE v[f]]

\* new LRU({ maxLength: 10000 }): the model keeps a cache of a few entries
MaxLength == 2

LruHas(cache, key) == \E i \in DOMAIN cache : cache[i].key = key

LruIndex(cache, key) == CHOOSE i \in DOMAIN cache : cache[i].key = key

LruPeek(cache, key) == cache[LruIndex(cache, key)].value

Without(cache, key) ==
  SelectSeq(cache, LAMBDA e : e.key # key)

\* cache.get(key): the entry found becomes the most recent one
LruGet(cache, key) ==
  IF LruHas(cache, key)
  THEN [hit |-> TRUE, value |-> LruPeek(cache, key),
        cache |-> <<cache[LruIndex(cache, key)]>> \o Without(cache, key)]
  ELSE [hit |-> FALSE, cache |-> cache]

\* cache.set(key, value)
LruSet(cache, key, node) ==
  LET all == <<[key |-> key, value |-> node]>> \o Without(cache, key)
  IN  SubSeq(all, 1, IF Len(all) > MaxLength THEN MaxLength ELSE Len(all))

\* The cache once the module is loaded, lines 695-698: trueNode, falseNode,
\* nullNode and blank were made in this order.
InitialRawCache ==
  LruSet(LruSet(LruSet(LruSet(<<>>, trueNode.text, trueNode), falseNode.text, falseNode),
                nullNode.text, nullNode),
         blank.text, blank)

\* makeRawNode(text) for a string, lines 237-260, with the cache it reads and
\* writes and the number of nodes created: the n-th node created is instance n
makeRawNodeInterned(text, cache, n) ==
  LET found == LruGet(cache, text)
  IN  IF found.hit THEN [node |-> found.value, cache |-> found.cache, created |-> n]
      ELSE LET newNode == Instance(makeRawNode(text), n + 1)
           IN  [node |-> newNode, cache |-> LruSet(found.cache, text, newNode),
                created |-> n + 1]

\* A single-piece template that looks no text up and remembers none.
sqlBaseSingleUncached(first, simple, cache, n) ==
  IF first = <<>> THEN [node |-> blank, simple |-> simple, cache |-> cache, created |-> n]
  ELSE LET made == makeRawNodeInterned(first, cache, n)
       IN  [node |-> made.node, simple |-> simple, cache |-> made.cache,
            created |-> made.created]

\* sql`first`, lines 570-582: strings.length === 1
sqlBaseSingle(first, simple, cache, n) ==
  IF first = <<>> THEN [node |-> blank, simple |-> simple, cache |-> cache, created |-> n]
  ELSE IF first \in DOMAIN simple
  THEN [node |-> simple[first], simple |-> simple, cache |-> cache, created |-> n]
  ELSE LET made == makeRawNodeInterned(first, cache, n)
       IN  [node |-> made.node, simple |-> (first :> made.node) @@ simple,
            cache |-> made.cache, created |-> made.created]

(***************************************************************************)
(* isParensSafe (lines 43-60)                                              *)
(***************************************************************************)
AllDigits(s) == Len(s) > 0 /\ \A i \in DOMAIN s : IsDigit(s[i])

\* /^\$[0-9]+$/
MatchesPlaceholder(expr) == Len(expr) > 0 /\ expr[1] = "$" /\ AllDigits(Tail(expr))

\* /^[0-9]+(?:\.[0-9]+)?$/
MatchesNumber(expr) ==
  \/ AllDigits(expr)
  \/ \E k \in DOMAIN expr :
       /\ expr[k] = "."
       /\ AllDigits(SubSeq(expr, 1, k - 1))
       /\ AllDigits(SubSeq(expr, k + 1, Len(expr)))

\* /^\.[0-9]+$/
MatchesFraction(expr) == Len(expr) > 0 /\ expr[1] = "." /\ AllDigits(Tail(expr))

\* MatchesQuoted with the quantifier * in place of +.
MatchesQuotedOrEmpty(expr, q) ==
  /\ Len(expr) >= 2
  /\ expr[1] = q
  /\ expr[Len(expr)] = q
  /\ \A i \in 2..(Len(expr) - 1) : expr[i] # q

\* /^'[^']+'$/ and /^"[^"]+"$/
MatchesQuoted(expr, q) ==
  /\ Len(expr) >= 3
  /\ expr[1] = q
  /\ expr[Len(expr)] = q
  /\ \A i \in 2..(Len(expr) - 1) : expr[i] # q

\* /^[a-zA-Z0-9_]+$/
MatchesWord(expr) ==
  /\ Len(expr) > 0
  /\ \A i \in DOMAIN expr : IsLower(expr[i]) \/ IsUpper(expr[i]) \/ IsDigit(expr[i]) \/ expr[i] = "_"

RECURSIVE Split(_, _, _)
\* expr.split(sep): cur is the part being read
Split(expr, sep, cur) ==
  IF expr = <<>> THEN <<cur>>
  ELSE IF Head(expr) = sep THEN <<cur>> \o Split(Tail(expr), sep, <<>>)
  ELSE Split(Tail(expr), sep, Append(cur, Head(expr)))

isParensSafe(expr) ==
  IF MatchesPlaceholder(expr) THEN TRUE
  ELSE IF MatchesNumber(expr) \/ MatchesFraction(expr) THEN TRUE
  ELSE IF MatchesQuoted(expr, "'") THEN TRUE
  ELSE LET parts == Split(expr, ".", <<>>)
       IN  \A i \in DOMAIN parts : MatchesQuoted(parts[i], "\"") \/ MatchesWord(parts[i])

(***************************************************************************)
(* Development-mode rendering helpers (lines 421-432, 542)                 *)
(***************************************************************************)
RECURSIVE ReplaceNewlines(_, _)
\* item.text.replace(/\n/g, "\n" + "  ".repeat(indent))
ReplaceNewlines(text, indentLevel) ==
  IF text = <<>> THEN <<>>
  ELSE (IF Head(text) = "\n" THEN <<"\n">> \o Repeat(<<" ", " ">>, indentLevel)
        ELSE <<Head(text)>>)
       \o ReplaceNewlines(Tail(text), indentLevel)

RECURSIVE SpaceRunEnd(_, _)
\* the last index of the run of \s characters of text that starts at index i
\* (i - 1 when text[i] is no such character)
SpaceRunEnd(text, i) ==
  IF i <= Len(text) /\ IsSpace(text[i]) THEN SpaceRunEnd(text, i + 1) ELSE i - 1

RECURSIVE CollapseFrom(_, _)
\* .replace(/\n\s*\n/g, "\n") from index i on: at a newline the greedy \s*
\* runs to the end of the white space and backtracks to its last newline
CollapseFrom(text, i) ==
  IF i > Len(text) THEN <<>>
  ELSE IF text[i] # "\n" THEN <<text[i]>> \o CollapseFrom(text, i + 1)
  ELSE LET runEnd == SpaceRunEnd(text, i + 1)
           ends == {j \in (i + 1)..runEnd : text[j] = "\n"}
       IN  IF ends = {} THEN <<"\n">> \o CollapseFrom(text, i + 1)
           ELSE <<"\n">> \o CollapseFrom(text, (CHOOSE j \in ends : \A k \in ends : k <= j) + 1)

CollapseBlankLines(text) == CollapseFrom(text, 1)

(***************************************************************************)
(* State                                                                   *)
(***************************************************************************)
VARIABLES
  isDev,               \* process.env.GRAPHILE_ENV === "development" (line 21)
  pc,                  \* "idle", or "print" while compile walks the tree
  op,                  \* the current (or last) call of the API and its arguments
  out,                 \* what that call returned or threw; Pending while it runs
  stack,               \* the activations of print, innermost last
  values,              \* compile's values (line 362)
  valueCount,          \* compile's valueCount (line 363)
  symbolToIdentifier,  \* compile's symbolToIdentifier (line 370)
  descCounter,         \* compile's descCounter (lines 377-379)
  assigned,            \* history: the calls of makeIdentifierForSymbol of this compile
  rendered,            \* history: the tokens rendered by this compile, with their alias
  remembered,          \* history: an earlier compile, its arguments and its result
  request,             \* the call of the API a caller is about to make, if any
  capItemCount,        \* value-cap walk: the number of items of the query
  capIndex,            \* value-cap walk: itemIndex
  capValueCount,       \* value-cap walk: valueCount
  capLast,             \* value-cap walk: the text pushed for the last item
  capOut,              \* value-cap walk: "walking", "returned" or "threw"
  sqlRawWarningOutput, \* the flag of raw() (line 622)
  rawCalls,            \* history: the number of calls of raw()
  rawWarnings,         \* history: console.warn of raw(), the number of the call of each
  rawNodes,            \* history: the texts raw() made a node for
  built,               \* history: the fragments the constructors returned, in order
  CACHE_RAW_NODES,     \* the Raw cache (line 176): its entries, most recently used first
  CACHE_SIMPLE_FRAGMENTS, \* the simple-template cache (line 551)
  created              \* history: the number of Raw nodes created so far

scratch == <<values, valueCount, symbolToIdentifier, descCounter, assigned, rendered>>

capVars == <<capItemCount, capIndex, capValueCount, capLast, capOut>>

rawVars == <<sqlRawWarningOutput, rawCalls, rawWarnings, rawNodes>>

buildVars == <<built, CACHE_RAW_NODES, CACHE_SIMPLE_FRAGMENTS, created>>

vars == <<isDev, pc, op, out, stack, values, valueCount, symbolToIdentifier,
          descCounter, assigned, rendered, remembered, request, capVars, rawVars, buildVars>>

Pending == [threw |-> "pending"]

EmptyMap == [k \in {} |-> <<>>]

MapSet(m, k, v) == (k :> v) @@ m

NoCall == [name |-> "none"]

(***************************************************************************)
(* compile: the scratch state and makeIdentifierForSymbol (lines 349-399)  *)
(***************************************************************************)
\* PostgreSQL's limit on placeholders, line 471
MAX_PLACEHOLDERS == 65535

CONSTRUCTOR_NAME == <<"c","o","n","s","t","r","u","c","t","o","r">>

\* A number held by descCounter: an integer, or NaN.
Count(n) == [nan |-> FALSE, n |-> n]

CountNaN == [nan |-> TRUE, n |-> 0]

\* descCounter is a plain object: reading a key it does not own yields what
\* Object.prototype has under that name, and the only such name mangleName
\* can produce is "constructor" (a function: truthy, NaN as a number).
\* The result is the number ++descCounter[safeDesc] stores.
NextDescCount(counter, safeDesc) ==
  IF safeDesc \in DOMAIN counter
  THEN IF counter[safeDesc].nan THEN Count(1) ELSE Count(counter[safeDesc].n + 1)
  ELSE IF safeDesc = CONSTRUCTOR_NAME THEN CountNaN
  ELSE Count(1)

\* IdentifierText without the special case of the first number.
IdentifierTextNumbered(safeDesc, number) ==
  <<"_", "_">> \o safeDesc \o <<"_">>
  \o (IF number.nan THEN <<"N", "a", "N">> ELSE NatToString(number.n))

\* The alias without the closing underscore of a first token:
\* `__${safeDesc}${number === 1 ? "" : "_" + number}`.
IdentifierTextBare(safeDesc, number) ==
  <<"_", "_">> \o safeDesc
  \o (IF number.nan THEN <<"_", "N", "a", "N">>
      ELSE IF number.n = 1 THEN <<>>
      ELSE <<"_">> \o NatToString(number.n))

\* `__${safeDesc}_${number === 1 ? "_" : number}`
IdentifierText(safeDesc, number) ==
  <<"_", "_">> \o safeDesc \o <<"_">>
  \o (IF number.nan THEN <<"N", "a", "N">>
      ELSE IF number.n = 1 THEN <<"_">>
      ELSE NatToString(number.n))

\* makeIdentifierForSymbol without symbolToIdentifier.set(symbol, ...).
makeIdentifierForSymbolNoStore(name, s2i, counter) ==
  LET number == NextDescCount(counter, name.n)
      identifierForSymbol == IdentifierText(name.n, number)
  IN  [id |-> identifierForSymbol,
       symbolToIdentifier |-> s2i,
       descCounter |-> MapSet(counter, name.n, number),
       assigned |-> <<[s |-> name.s, n |-> name.n, id |-> identifierForSymbol]>>]

\* makeIdentifierForSymbol(name), lines 384-399, on the maps `s2i` and `counter`
makeIdentifierForSymbol(name, s2i, counter) ==
  LET number == NextDescCount(counter, name.n)
      identifierForSymbol == IdentifierText(name.n, number)
  IN  [id |-> identifierForSymbol,
       symbolToIdentifier |-> MapSet(s2i, name.s, identifierForSymbol),
       descCounter |-> MapSet(counter, name.n, number),
       assigned |-> <<[s |-> name.s, n |-> name.n, id |-> identifierForSymbol]>>]

RECURSIVE IdentifierLoop(_, _, _)
\* the loop over item.names of case IDENTIFIER, lines 438-463; st carries
\* mappedNames and the maps
IdentifierLoop(names, i, st) ==
  IF i > Len(names) THEN st
  ELSE LET name == names[i]
       IN  IF name.js = "string"
           THEN IdentifierLoop(names, i + 1,
                  [st EXCEPT !.mappedNames = Append(@, name.str)])
           ELSE IF "s" \notin DOMAIN name
           THEN [st EXCEPT !.threw = "InvalidIdentifierNode"]
           ELSE IF name.s \in DOMAIN st.symbolToIdentifier
           THEN IdentifierLoop(names, i + 1,
                  [st EXCEPT !.mappedNames = Append(@, st.symbolToIdentifier[name.s]),
                             !.rendered = Append(@, [s |-> name.s, n |-> name.n,
                                                     id |-> st.symbolToIdentifier[name.s]])])
           ELSE LET made == makeIdentifierForSymbol(name, st.symbolToIdentifier,
                                                    st.descCounter)
                IN  IdentifierLoop(names, i + 1,
                      [st EXCEPT !.mappedNames = Append(@, made.id),
                                 !.symbolToIdentifier = made.symbolToIdentifier,
                                 !.descCounter = made.descCounter,
                                 !.assigned = @ \o made.assigned,
                                 !.rendered = Append(@, [s |-> name.s, n |-> name.n,
                                                         id |-> made.id])])

\* ValueVisit refusing the 65535th value already.
ValueVisitCapReached(count) ==
  IF count + 1 >= MAX_PLACEHOLDERS
  THEN [threw |-> "TooManyParameters", valueCount |-> count + 1]
  ELSE [threw |-> "none", valueCount |-> count + 1,
        text |-> <<"$">> \o NatToString(count + 1)]

\* ValueVisit numbering the placeholder before the increment.
ValueVisitBeforeIncrement(count) ==
  IF count + 1 > MAX_PLACEHOLDERS
  THEN [threw |-> "TooManyParameters", valueCount |-> count + 1]
  ELSE [threw |-> "none", valueCount |-> count + 1,
        text |-> <<"$">> \o NatToString(count)]

\* valueCount++ and the test of the cap, lines 470-477
ValueVisit(count) ==
  IF count + 1 > MAX_PLACEHOLDERS
  THEN [threw |-> "TooManyParameters", valueCount |-> count + 1]
  ELSE [threw |-> "none", valueCount |-> count + 1,
        text |-> <<"$">> \o NatToString(count + 1)]

\* !x
IsFalsy(v) ==
  \/ IsNullish(v)
  \/ v.js = "string" /\ v.str = <<>>
  \/ v.js = "boolean" /\ ~v.bool
  \/ v.js = "number" /\ (v.kind = "NaN" \/ IsZero(v))

\* ResolvePlaceholder preferring the fallback to the caller's map.
ResolvePlaceholderFallbackFirst(item, placeholderValues) ==
  IF ~IsNullish(item.fallback) THEN item.fallback
  ELSE IF item.symbol \in DOMAIN placeholderValues
  THEN placeholderValues[item.symbol]
  ELSE item.fallback

\* placeholderValues?.get(item.symbol) ?? item.fallback, lines 523-524
ResolvePlaceholder(item, placeholderValues) ==
  IF item.symbol \in DOMAIN placeholderValues /\ ~IsNullish(placeholderValues[item.symbol])
  THEN placeholderValues[item.symbol]
  ELSE item.fallback

(***************************************************************************)
(* compile: print (lines 401-541) as a walk, one item per step             *)
(***************************************************************************)
\* The activation of print(untrustedInput, indent) once its input passed
\* enforceValidNode, lines 405-410.
PrintFrame(trustedInput, indentLevel) ==
  [items |-> IF trustedInput.type = "QUERY" THEN trustedInput.nodes ELSE <<trustedInput>>,
   itemIndex |-> 0,
   sqlFragments |-> <<>>,
   indent |-> indentLevel]

Top == stack[Len(stack)]

HasItem == pc = "print" /\ Top.itemIndex < Len(Top.items)

Item == Top.items[Top.itemIndex + 1]

\* sqlFragments.push(text); break -- and the loop's itemIndex++
Pushed(frame, text) ==
  [frame EXCEPT !.sqlFragments = Append(@, text), !.itemIndex = @ + 1]

\* break -- and the loop's itemIndex++
Skipped(frame) == [frame EXCEPT !.itemIndex = @ + 1]

ReplaceTop(frame) == [stack EXCEPT ![Len(stack)] = frame]

\* What the observer keeps of a finished compile.
Remember(outcome) ==
  IF ~op.observe THEN remembered
  ELSE IF ~remembered.set
  THEN [set |-> TRUE, sql |-> op.sql, placeholderValues |-> op.placeholderValues,
        out |-> outcome, between |-> FALSE]
  ELSE IF remembered.sql = op.sql /\ remembered.placeholderValues = op.placeholderValues
  THEN remembered
  ELSE [remembered EXCEPT !.between = TRUE]

\* compile returns or throws: control is back at the caller
Finish(outcome) ==
  /\ pc' = "idle"
  /\ out' = outcome
  /\ stack' = <<>>
  /\ remembered' = Remember(outcome)

\* CompileEnter with descCounter kept from the previous call, as if it were
\* declared outside compile.
CompileEnterSharedCounter(call) ==
  /\ pc = "idle"
  /\ op' = call
  /\ values' = <<>>
  /\ valueCount' = 0
  /\ symbolToIdentifier' = EmptyMap
  /\ descCounter' = descCounter
  /\ assigned' = <<>>
  /\ rendered' = <<>>
  /\ IF isSQL(call.sql)
     THEN /\ pc' = "print"
          /\ out' = Pending
          /\ stack' = <<PrintFrame(call.sql, 0)>>
          /\ remembered' = remembered
     ELSE /\ pc' = "idle"
          /\ out' = Threw("InvalidFragment")
          /\ stack' = <<>>
          /\ remembered' = remembered
  /\ UNCHANGED <<isDev, request, rawVars, buildVars, capVars>>

\* The entry of compile (lines 356-379) and of print(sql) (lines 401-410) for
\* the arguments `call`.
CompileEnter(call) ==
  /\ pc = "idle"
  /\ op' = call
  /\ values' = <<>>
  /\ valueCount' = 0
  /\ symbolToIdentifier' = EmptyMap
  /\ descCounter' = EmptyMap
  /\ assigned' = <<>>
  /\ rendered' = <<>>
  /\ IF isSQL(call.sql)
     THEN /\ pc' = "print"
          /\ out' = Pending
          /\ stack' = <<PrintFrame(call.sql, 0)>>
          /\ remembered' = remembered
     ELSE /\ pc' = "idle"
          /\ out' = Threw("InvalidFragment")
          /\ stack' = <<>>
          /\ remembered' = remembered
  /\ UNCHANGED <<isDev, request, rawVars, buildVars, capVars>>

\* enforceValidNode(items[itemIndex]) fails, line 413
PrintInvalidItem ==
  /\ HasItem
  /\ ~isSQL(Item)
  /\ Finish(Threw("InvalidFragment"))
  /\ UNCHANGED <<isDev, op, scratch, request, rawVars, buildVars, capVars>>

\* case "RAW", lines 415-434
PrintRaw ==
  /\ HasItem
  /\ isSQL(Item)
  /\ Item.type = "RAW"
  /\ IF Item.text = <<>>
     THEN /\ stack' = ReplaceTop(Skipped(Top))
          /\ UNCHANGED <<pc, out, remembered>>
     ELSE IF isDev /\ Top.itemIndex = Len(Top.items) - 1 /\ Item.text = <<";">>
     THEN IF Top.sqlFragments = <<>>
          THEN \* prev is undefined: prev.endsWith throws
               Finish(Threw("TypeError"))
          ELSE LET prevIndex == Len(Top.sqlFragments)
                   prev == Top.sqlFragments[prevIndex]
                   trimmed == IF EndsWith(prev, "\n")
                              THEN SubSeq(prev, 1, Len(prev) - 1) ELSE prev
               IN  /\ stack' = ReplaceTop(
                        Pushed([Top EXCEPT !.sqlFragments[prevIndex] = trimmed],
                               ReplaceNewlines(Item.text, Top.indent)))
                   /\ UNCHANGED <<pc, out, remembered>>
     ELSE /\ stack' = ReplaceTop(
               Pushed(Top, IF isDev THEN ReplaceNewlines(Item.text, Top.indent)
                           ELSE Item.text))
          /\ UNCHANGED <<pc, out, remembered>>
  /\ UNCHANGED <<isDev, op, scratch, request, rawVars, buildVars, capVars>>

\* case "IDENTIFIER", lines 435-468
PrintIdentifier ==
  /\ HasItem
  /\ isSQL(Item)
  /\ Item.type = "IDENTIFIER"
  /\ LET st == IdentifierLoop(Item.names, 1,
                 [threw |-> "none", mappedNames |-> <<>>,
                  symbolToIdentifier |-> symbolToIdentifier,
                  descCounter |-> descCounter,
                  assigned |-> assigned, rendered |-> rendered])
     IN  /\ symbolToIdentifier' = st.symbolToIdentifier
         /\ descCounter' = st.descCounter
         /\ assigned' = st.assigned
         /\ rendered' = st.rendered
         /\ IF st.threw # "none"
            THEN Finish(Threw(st.threw))
            ELSE /\ stack' = ReplaceTop(Pushed(Top, JoinWith(st.mappedNames, <<".">>)))
                 /\ UNCHANGED <<pc, out, remembered>>
  /\ UNCHANGED <<isDev, op, values, valueCount, request, rawVars, buildVars, capVars>>

\* case "VALUE", lines 469-479
PrintValue ==
  /\ HasItem
  /\ isSQL(Item)
  /\ Item.type = "VALUE"
  /\ LET visit == ValueVisit(valueCount)
     IN  /\ valueCount' = visit.valueCount
         /\ IF visit.threw # "none"
            THEN /\ Finish(Threw(visit.threw))
                 /\ values' = values
            ELSE /\ values' = [k \in 1..visit.valueCount |->
                                 IF k = visit.valueCount THEN Item.value ELSE values[k]]
                 /\ stack' = ReplaceTop(Pushed(Top, visit.text))
                 /\ UNCHANGED <<pc, out, remembered>>
  /\ UNCHANGED <<isDev, op, symbolToIdentifier, descCounter, assigned, rendered, request, rawVars, buildVars, capVars>>

\* case "INDENT", lines 480-490: the assertion and the call of print
PrintIndent ==
  /\ HasItem
  /\ isSQL(Item)
  /\ Item.type = "INDENT"
  /\ IF ~isDev THEN Finish(Threw("AssertionError"))
     ELSE IF ~isSQL(Item.content) THEN Finish(Threw("InvalidFragment"))
     ELSE /\ stack' = Append(stack, PrintFrame(Item.content, Top.indent + 1))
          /\ UNCHANGED <<pc, out, remembered>>
  /\ UNCHANGED <<isDev, op, scratch, request, rawVars, buildVars, capVars>>

\* case "PARENS", lines 491-492: the call of print
PrintParens ==
  /\ HasItem
  /\ isSQL(Item)
  /\ Item.type = "PARENS"
  /\ IF ~isSQL(Item.content) THEN Finish(Threw("InvalidFragment"))
     ELSE /\ stack' = Append(stack, PrintFrame(Item.content, Top.indent))
          /\ UNCHANGED <<pc, out, remembered>>
  /\ UNCHANGED <<isDev, op, scratch, request, rawVars, buildVars, capVars>>

\* AliasesConflict throwing whenever both tokens have an alias.
AliasesConflictWheneverBothAssigned(s2i, symbol1, symbol2) ==
  symbol1 \in DOMAIN s2i /\ symbol2 \in DOMAIN s2i

\* name1 && name2 && name1 !== name2, line 505
AliasesConflict(s2i, symbol1, symbol2) ==
  /\ symbol1 \in DOMAIN s2i
  /\ symbol2 \in DOMAIN s2i
  /\ s2i[symbol1] # s2i[symbol2]

\* The new alias taken from the second token of the node.
AliasedNameSecond(item) == item.b

\* makeIdentifierForSymbol(item.a), line 516: the token the new alias is made for
AliasedName(item) == item.a

\* case "SYMBOL_ALIAS", lines 500-520
PrintSymbolAlias ==
  /\ HasItem
  /\ isSQL(Item)
  /\ Item.type = "SYMBOL_ALIAS"
  /\ LET symbol1 == Item.a.s
         symbol2 == Item.b.s
         has1 == symbol1 \in DOMAIN symbolToIdentifier
         has2 == symbol2 \in DOMAIN symbolToIdentifier
     IN  IF AliasesConflict(symbolToIdentifier, symbol1, symbol2)
         THEN /\ Finish(Threw("ConflictingSymbolAlias"))
              /\ UNCHANGED <<symbolToIdentifier, descCounter, assigned>>
         ELSE /\ IF has1
                 THEN /\ symbolToIdentifier' =
                           MapSet(symbolToIdentifier, symbol2, symbolToIdentifier[symbol1])
                      /\ UNCHANGED <<descCounter, assigned>>
                 ELSE IF has2
                 THEN /\ symbolToIdentifier' =
                           MapSet(symbolToIdentifier, symbol1, symbolToIdentifier[symbol2])
                      /\ UNCHANGED <<descCounter, assigned>>
                 ELSE LET made == makeIdentifierForSymbol(AliasedName(Item),
                                                          symbolToIdentifier, descCounter)
                      IN  /\ symbolToIdentifier' =
                                MapSet(MapSet(made.symbolToIdentifier, symbol1, made.id),
                                       symbol2, made.id)
                          /\ descCounter' = made.descCounter
                          /\ assigned' = assigned \o made.assigned
              /\ stack' = ReplaceTop(Skipped(Top))
              /\ UNCHANGED <<pc, out, remembered>>
  /\ UNCHANGED <<isDev, op, values, valueCount, rendered, request, rawVars, buildVars, capVars>>

\* case "PLACEHOLDER", lines 521-532: the lookup and the call of print
\* The recursion of print through Placeholder nodes has no bound of its own:
\* the model follows it to this many activations.
MaxDepth == 6

PrintPlaceholder ==
  /\ HasItem
  /\ isSQL(Item)
  /\ Item.type = "PLACEHOLDER"
  /\ LET resolvedPlaceholder == ResolvePlaceholder(Item, op.placeholderValues)
     IN  IF IsFalsy(resolvedPlaceholder) THEN Finish(Threw("UnresolvedPlaceholder"))
         ELSE IF ~isSQL(resolvedPlaceholder) THEN Finish(Threw("InvalidFragment"))
         ELSE /\ Len(stack) < MaxDepth
              /\ stack' = Append(stack, PrintFrame(resolvedPlaceholder, Top.indent))
              /\ UNCHANGED <<pc, out, remembered>>
  /\ UNCHANGED <<isDev, op, scratch, request, rawVars, buildVars, capVars>>

\* PushedByCaller wrapping on the force flag alone.
PushedByCallerOnForceOnly(callerItem, callerIndent, inner) ==
  IF callerItem.type = "INDENT"
  THEN <<"\n">> \o Repeat(<<" ", " ">>, callerIndent + 1) \o inner
       \o <<"\n">> \o Repeat(<<" ", " ">>, callerIndent)
  ELSE IF callerItem.type = "PARENS"
  THEN IF callerItem.force THEN <<"(">> \o inner \o <<")">> ELSE inner
  ELSE inner

\* What the caller pushes when print(...) returns `inner` to it: lines 482-488
\* (INDENT), 493-497 (PARENS), 530 (PLACEHOLDER).
PushedByCaller(callerItem, callerIndent, inner) ==
  IF callerItem.type = "INDENT"
  THEN <<"\n">> \o Repeat(<<" ", " ">>, callerIndent + 1) \o inner
       \o <<"\n">> \o Repeat(<<" ", " ">>, callerIndent)
  ELSE IF callerItem.type = "PARENS"
  THEN IF callerItem.force \/ ~isParensSafe(inner)
       THEN <<"(">> \o inner \o <<")">>
       ELSE inner
  ELSE inner

\* return sqlFragments.join(""), line 540, to an enclosing print
PrintReturn ==
  /\ pc = "print"
  /\ Top.itemIndex = Len(Top.items)
  /\ Len(stack) > 1
  /\ LET inner == Concat(Top.sqlFragments)
         caller == stack[Len(stack) - 1]
         callerItem == caller.items[caller.itemIndex + 1]
     IN  stack' = Append(SubSeq(stack, 1, Len(stack) - 2),
                         Pushed(caller, PushedByCaller(callerItem, caller.indent, inner)))
  /\ UNCHANGED <<isDev, pc, op, out, scratch, remembered, request, rawVars, buildVars, capVars>>

\* return sqlFragments.join("") to compile, and compile's return, lines 540-547
CompileReturn ==
  /\ pc = "print"
  /\ Top.itemIndex = Len(Top.items)
  /\ Len(stack) = 1
  /\ LET printed == Concat(Top.sqlFragments)
         text == IF isDev THEN CollapseBlankLines(printed) ELSE printed
     IN  Finish(Returned([text |-> text, values |-> values]))
  /\ UNCHANGED <<isDev, op, scratch, request, rawVars, buildVars, capVars>>

PrintStep ==
  \/ PrintInvalidItem
  \/ PrintRaw
  \/ PrintIdentifier
  \/ PrintValue
  \/ PrintIndent
  \/ PrintParens
  \/ PrintSymbolAlias
  \/ PrintPlaceholder
  \/ PrintReturn
  \/ CompileReturn

(***************************************************************************)
(* The fragments the walks start from, each built by the constructors      *)
(***************************************************************************)
\* The number of tokens that share the description "u".
MaxTokens == 3

\* The number of Value nodes of the longest join.
MaxValues == 3

\* The k-th token described "u".
TokenU(k) == Sym(k, <<"u">>)

symA == TokenU(1)

symB == TokenU(2)

symE == TokenU(3)

symT == Sym(101, <<"u","s","e","r","_","r","o","w","s">>)

symC1 == Sym(102, <<"c","o","n","s","t","r","u","c","t","o","r">>)

symC2 == Sym(103, <<"c","o","n","s","t","r","u","c","t","o","r">>)

symC3 == Sym(104, <<"c","o","n","s","t","r","u","c","t","o","r">>)

symP == Sym(105, <<"p">>)

\* A second token described "p": equal to symP in description, not in identity.
symP2 == Sym(108, <<"p">>)

symQ == Sym(106, <<"q">>)

symX == Sym(107, <<"m","y","T","a","b","l","e">>)

IntNum(n) == Num(FALSE, n, <<>>)

V(n) == value(IntNum(n)).value

Id(names) == identifier(names).value

Tpl(strings, vals) == sqlBase([i \in DOMAIN strings |-> Str(strings[i])], vals).value

\* A plain object with the properties of fragment f but without the trust
\* mark: what JSON.parse(JSON.stringify(f)) yields for a Raw or a Value node.
Forged(f) == [f EXCEPT !.trusted = FALSE]

forgedRaw == Forged(makeRawNode(<<"1",";"," ","d","r","o","p">>))

\* { type: "QUERY", nodes: [{ type: "PLACEHOLDER", symbol: symP }, forgedRaw] }
forgedQuery == Forged(makeQueryNode(<<Forged(makePlaceholderNode(symP, Undefined)), forgedRaw>>))

fromToken == Tpl(<<<<"f","r","o","m"," ">>, <<>>>>, <<Id(<<symT>>)>>)

aliasAfterUse ==
  Tpl(<<<<>>, <<"/">>, <<"/">>, <<>>, <<"/">>, <<>>>>,
      <<Id(<<symA>>), Id(<<symB>>), symbolAlias(symA, symB), Id(<<symA>>), Id(<<symB>>)>>)

sameToken == Tpl(<<<<>>, <<".">>, <<" ">>, <<>>>>, <<Id(<<symA>>), Id(<<symB>>), Id(<<symA>>)>>)

aliasBeforeUse ==
  Tpl(<<<<>>, <<>>, <<" ">>, <<>>>>, <<symbolAlias(symA, symB), Id(<<symA>>), Id(<<symB>>)>>)

aliasThenThird ==
  Tpl(<<<<>>, <<>>, <<" ">>, <<>>>>, <<symbolAlias(symA, symB), Id(<<symB>>), Id(<<symE>>)>>)

aliasAcrossNames ==
  Tpl(<<<<>>, <<>>, <<" ">>, <<>>>>, <<symbolAlias(symX, symA), Id(<<symA>>), Id(<<symB>>)>>)

\* sql`${identifier(a)} ${symbolAlias(a, b)}${identifier(b)} ${identifier(e)}`
aliasAdoptsFirst ==
  Tpl(<<<<>>, <<" ">>, <<>>, <<" ">>, <<>>>>,
      <<Id(<<symA>>), symbolAlias(symA, symB), Id(<<symB>>), Id(<<symE>>)>>)

\* sql`${identifier(x)} ${symbolAlias(a, x)}${identifier(a)} ${identifier(x)}`
aliasAdoptsSecond ==
  Tpl(<<<<>>, <<" ">>, <<>>, <<" ">>, <<>>>>,
      <<Id(<<symX>>), symbolAlias(symA, symX), Id(<<symA>>), Id(<<symX>>)>>)

\* identifier(t1, ..., tk) of k tokens described "u"
TokensOfOneName(k) == Id([i \in 1..k |-> TokenU(i)])

threeTokens == TokensOfOneName(3)

\* Symbol("u_2"): the description the second token described "u" would be
\* numbered to.
symU2 == Sym(109, <<"u","_","2">>)

\* identifier(Symbol("u"), Symbol("u"), Symbol("u_2"))
suffixAfter == Id(<<symA, symB, symU2>>)

\* identifier(Symbol("u_2"), Symbol("u"), Symbol("u"))
suffixBefore == Id(<<symU2, symA, symB>>)

\* sql`${symbolAlias(u2, a)}${identifier(a)} ${identifier(b)} ${identifier(u2)}`
suffixJoined ==
  Tpl(<<<<>>, <<>>, <<" ">>, <<" ">>, <<>>>>,
      <<symbolAlias(symU2, symA), Id(<<symA>>), Id(<<symB>>), Id(<<symU2>>)>>)

constructorTokens == Id(<<symC1, symC2, symC3>>)

mangledToken == Id(<<symX, Str(<<"c","o","l">>)>>)

usersId == Id(<<Str(<<"u","s","e","r","s">>), Str(<<"i","d">>)>>)

selectUsers ==
  Tpl(<<<<"s","e","l","e","c","t"," ">>, <<" ","f","r","o","m"," ">>, <<" ","w","h","e","r","e"," ">>, <<" ","="," ">>, <<>>>>,
      <<usersId, Id(<<Str(<<"u","s","e","r","s">>)>>), usersId, V(42)>>)

\* join([value(1), ..., value(k)], ", ")
JoinOfValues(k) == join(Arr([i \in 1..k |-> V(i)]), Str(<<","," ">>)).value

joinThree == JoinOfValues(3)

joinSame == join(Arr(<<V(1), V(1)>>), Str(<<",">>)).value

whereParens ==
  Tpl(<<<<"w","h","e","r","e"," ">>, <<>>>>, <<parens(Tpl(<<<<>>, <<" ","="," ">>, <<>>>>, <<V(1), V(2)>>), FALSE).value>>)

parensValue == parens(V(7), FALSE).value

parensForced == parens(V(7), TRUE).value

placeholderTwice ==
  Tpl(<<<<>>, <<" ">>, <<" ">>, <<>>>>,
      <<placeholder(symP, Undefined), V(1), placeholder(symP, Undefined)>>)

placeholderFallback == placeholder(symP, V(3))

placeholderNested == placeholder(symQ, parens(placeholder(symP, V(3)), TRUE).value)

literalHello == literal(Str(<<"h","e","l","l","o">>)).value

literalQuote == literal(Str(<<"i","t","'","s">>)).value

parensForged == parens(forgedRaw, FALSE).value

placeholderForgedFallback == placeholder(symQ, forgedRaw)

rewrittenForged == replaceSymbol(forgedQuery, symP, symQ).value

errorBeforeForged ==
  Tpl(<<<<>>, <<>>, <<>>>>, <<placeholder(symQ, Undefined), parensForged>>)

semicolonOnly == Tpl(<<<<";">>>>, <<>>)

indentedThenSemicolon(dev) == Tpl(<<<<>>, <<";">>>>, <<indent(dev, V(1))>>)

indentedLines(dev) ==
  indent(dev, Tpl(<<<<"a","\n","\n","b"," ">>, <<"\n">>>>, <<indent(dev, parens(V(2), FALSE).value)>>))

NoValues == EmptyMap

\* new Map([[p, sql.placeholder(p, sql.value(3))]]): the fragment supplied for
\* p holds a Placeholder of p
placeholderSelf == symP :> placeholderFallback

\* p is supplied as (placeholder q) and q as a placeholder of p
placeholderEachOther ==
  (symP :> parens(placeholder(symQ, V(1)), TRUE).value) @@ (symQ :> placeholderFallback)

\* p is supplied as a placeholder of q and q as a value: no way back to p
placeholderChain == (symP :> placeholder(symQ, Undefined)) @@ (symQ :> V(2))

\* The fragments handed to compile.
CompileFragments(dev) ==
  { fromToken, aliasAfterUse, sameToken, aliasBeforeUse, aliasThenThird,
    aliasAcrossNames, constructorTokens, mangledToken, usersId,
    selectUsers, joinSame, whereParens, parensValue, parensForced,
    placeholderTwice, placeholderFallback, placeholderNested, literalHello,
    literalQuote, parensForged, placeholderForgedFallback, rewrittenForged,
    errorBeforeForged, aliasAdoptsFirst, aliasAdoptsSecond, semicolonOnly, indentedThenSemicolon(dev), indentedLines(dev),
    forgedRaw, Str(<<"s","e","l","e","c","t"," ","1">>),
    suffixAfter, suffixBefore, suffixJoined }
  \cup { TokensOfOneName(k) : k \in 1..MaxTokens }
  \cup { JoinOfValues(k) : k \in 2..MaxValues }

With(f, m) == [sql |-> f, placeholderValues |-> m]

\* The arguments of the compile calls: every fragment with no map, and the
\* fragments that hold a Placeholder with maps that resolve it.
CompileInputs(dev) ==
  { With(f, NoValues) : f \in CompileFragments(dev) }
  \cup { With(placeholderTwice, symP :> V(2)),
         With(placeholderFallback, symP :> V(2)),
         With(placeholderNested, symP :> V(2)),
         With(placeholderForgedFallback, symQ :> V(1)),
         With(rewrittenForged, symQ :> V(1)),
         With(rewrittenForged, symQ :> forgedRaw),
         With(errorBeforeForged, symQ :> V(1)),
         With(placeholderFallback, placeholderSelf),
         With(placeholderFallback, placeholderEachOther),
         With(placeholderFallback, placeholderChain) }

(***************************************************************************)
(* The compiler on its own: any number of compile calls                    *)
(***************************************************************************)
NoResult == [threw |-> "no call"]

InitCommon ==
  /\ pc = "idle"
  /\ op = NoCall
  /\ out = NoResult
  /\ stack = <<>>
  /\ values = <<>>
  /\ valueCount = 0
  /\ symbolToIdentifier = EmptyMap
  /\ descCounter = EmptyMap
  /\ assigned = <<>>
  /\ rendered = <<>>
  /\ remembered = [set |-> FALSE]
  /\ sqlRawWarningOutput = FALSE
  /\ rawCalls = 0
  /\ rawWarnings = <<>>
  /\ rawNodes = {}
  /\ built = <<>>
  /\ CACHE_RAW_NODES = InitialRawCache
  /\ CACHE_SIMPLE_FRAGMENTS = EmptyMap
  /\ created = 0

NoRequest == request = NoCall

CapIdle ==
  /\ capItemCount = 0
  /\ capIndex = 0
  /\ capValueCount = 0
  /\ capLast = <<>>
  /\ capOut = "idle"

Init ==
  /\ isDev \in BOOLEAN
  /\ InitCommon
  /\ NoRequest
  /\ CapIdle

\* compile(sql, { placeholderValues }), lines 349-399: the call
CompileCall ==
  \E c \in CompileInputs(isDev), observe \in (IF remembered.set THEN {TRUE} ELSE BOOLEAN) :
    CompileEnter([name |-> "compile", sql |-> c.sql,
                  placeholderValues |-> c.placeholderValues, observe |-> observe])

Next ==
  \/ CompileCall
  \/ PrintStep

Spec == Init /\ [][Next]_vars

(***************************************************************************)
(* Reference definitions for the properties of compile                     *)
(***************************************************************************)
CompileDone == pc = "idle" /\ op.name = "compile"

CompileReturned == CompileDone /\ out.threw = "none"

\* The trust mark, read off the value itself.
HasTrustMark(x) == x.js = "object" /\ x.trusted = TRUE

RECURSIVE WalkOf(_, _)
RECURSIVE WalkItem(_, _)
RECURSIVE WalkItems(_, _)
\* The nodes the walk of print(x) reaches when nothing fails, in the order it
\* reaches them; the walk does not look inside a value without trust mark.
WalkOf(x, m) ==
  IF ~HasTrustMark(x) THEN <<x>>
  ELSE IF x.type = "QUERY" THEN WalkItems(x.nodes, m)
  ELSE WalkItem(x, m)

WalkItems(items, m) ==
  IF items = <<>> THEN <<>> ELSE WalkItem(Head(items), m) \o WalkItems(Tail(items), m)

WalkItem(n, m) ==
  IF ~HasTrustMark(n) THEN <<n>>
  ELSE IF n.type \in {"PARENS", "INDENT"} THEN <<n>> \o WalkOf(n.content, m)
  ELSE IF n.type = "PLACEHOLDER"
  THEN LET r == IF n.symbol \in DOMAIN m THEN m[n.symbol] ELSE n.fallback
       IN  IF r = Undefined THEN <<n>> ELSE <<n>> \o WalkOf(r, m)
  ELSE <<n>>

Walk == WalkOf(op.sql, op.placeholderValues)

UntrustedAt(w) == {i \in DOMAIN w : ~HasTrustMark(w[i])}

\* A node of the walk that raises no error of its own: no unresolved
\* Placeholder, no SymbolAlias, no Raw `;`, no Indent outside development mode.
Benign(n, m) ==
  /\ HasTrustMark(n)
  /\ n.type \in {"RAW", "VALUE", "IDENTIFIER", "PARENS", "INDENT", "PLACEHOLDER"}
  /\ n.type = "RAW" => n.text # <<";">>
  /\ n.type = "INDENT" => isDev
  /\ n.type = "PLACEHOLDER" => (n.symbol \in DOMAIN m \/ n.fallback # Undefined)

\* The scalars of the Value nodes of a walk, in order.
RECURSIVE ValueVisits(_)
ValueVisits(w) ==
  IF w = <<>> THEN <<>>
  ELSE (IF HasTrustMark(Head(w)) /\ Head(w).type = "VALUE" THEN <<Head(w).value>> ELSE <<>>)
       \o ValueVisits(Tail(w))

RECURSIVE ParseNat(_, _)
ParseNat(digits, acc) ==
  IF digits = <<>> THEN acc
  ELSE ParseNat(Tail(digits),
                10 * acc + ((CHOOSE i \in DOMAIN DIGITS : DIGITS[i] = Head(digits)) - 1))

RECURSIVE DigitRunEnd(_, _)
DigitRunEnd(text, i) ==
  IF i <= Len(text) /\ IsDigit(text[i]) THEN DigitRunEnd(text, i + 1) ELSE i - 1

RECURSIVE PlaceholderNumbersFrom(_, _)
\* The numbers n of the placeholders `$n` of a text, left to right.
PlaceholderNumbersFrom(text, i) ==
  IF i > Len(text) THEN <<>>
  ELSE IF text[i] = "$" /\ DigitRunEnd(text, i + 1) > i
  THEN <<ParseNat(SubSeq(text, i + 1, DigitRunEnd(text, i + 1)), 0)>>
       \o PlaceholderNumbersFrom(text, DigitRunEnd(text, i + 1) + 1)
  ELSE PlaceholderNumbersFrom(text, i + 1)

PlaceholderNumbers(text) == PlaceholderNumbersFrom(text, 1)

\* The pairs of tokens the SymbolAlias nodes of a walk join.
AliasPairs(w) ==
  {{w[i].a.s, w[i].b.s} : i \in {j \in DOMAIN w : HasTrustMark(w[j]) /\ w[j].type = "SYMBOL_ALIAS"}}

RECURSIVE JoinedTo(_, _)
\* The tokens joined to those of S, directly or transitively, by the pairs.
JoinedTo(S, pairs) ==
  LET more == S \cup UNION {p \in pairs : p \cap S # {}}
  IN  IF more = S THEN S ELSE JoinedTo(more, pairs)

\* How many of the first k entries of `assigned` carry description d.
NthOfDescription(k, d) == Cardinality({j \in 1..k : assigned[j].n = d})

(***************************************************************************)
(* C1.  compile renders text only from trust-marked nodes: when the walk   *)
(* meets a value without the trust mark (the input, a Query item, the      *)
(* content of an Indent or Parens, a fragment resolved for a Placeholder), *)
(* compile returns no text and no values; it throws, and what it throws is *)
(* the invalid-fragment error whenever no node before that value raises an *)
(* error of its own.                                                       *)
(***************************************************************************)
C1_UntrustedNeverRendered ==
  CompileDone /\ UntrustedAt(Walk) # {} =>
    /\ out.threw # "none"
    /\ LET first == CHOOSE i \in UntrustedAt(Walk) : \A j \in UntrustedAt(Walk) : i <= j
       IN  (\A i \in 1..(first - 1) : Benign(Walk[i], op.placeholderValues))
             => out.threw = "InvalidFragment"

\* An untrusted Query item is met after a resolved Placeholder was rendered.
C1_Witness ==
  /\ CompileDone
  /\ op.sql = rewrittenForged
  /\ op.placeholderValues = (symQ :> V(1))
  /\ valueCount = 1
  /\ out = Threw("InvalidFragment")

\* C1 as stated: any value without trust mark on the walk makes compile fail
\* with the invalid-fragment error.
C1_AsStated ==
  CompileDone /\ UntrustedAt(Walk) # {} => out.threw = "InvalidFragment"

(***************************************************************************)
(* C3.  In the result of a successful compile the placeholders of the text *)
(* are $1, $2, ... in this order, values[k-1] is the scalar of the k-th    *)
(* Value node the walk visits, and values has one entry per visit.         *)
(***************************************************************************)
C3_PlaceholderOrder ==
  CompileReturned =>
    LET visits == ValueVisits(Walk)
    IN  /\ out.value.values = visits
        /\ PlaceholderNumbers(out.value.text) = [k \in 1..Len(visits) |-> k]

\* One Value node reached twice through a Placeholder gets two numbers.
C3_Witness ==
  /\ CompileReturned
  /\ op.sql = placeholderTwice
  /\ out.value.text = <<"$","1"," ","$","2"," ","$","3">>
  /\ out.value.values = <<IntNum(2), IntNum(1), IntNum(2)>>

(***************************************************************************)
(* C8.  Within one compile, every rendering of one opaque token yields the *)
(* same alias, and two tokens of equal mangled description that no         *)
(* SymbolAlias joins are rendered with different aliases.                  *)
(***************************************************************************)
C8_AliasStability ==
  \A i, j \in DOMAIN rendered :
    /\ rendered[i].s = rendered[j].s => rendered[i].id = rendered[j].id
    /\ ( /\ rendered[i].s # rendered[j].s
         /\ rendered[i].n = rendered[j].n
         /\ rendered[j].s \notin JoinedTo({rendered[i].s}, AliasPairs(Walk)) )
       => rendered[i].id # rendered[j].id

C8_Witness ==
  /\ CompileReturned
  /\ op.sql = sameToken
  /\ out.value.text = <<"_","_","u","_","_",".","_","_","u","_","2"," ","_","_","u","_","_">>

(***************************************************************************)
(* C9.  The first token that is given a new alias for mangled description *)
(* d gets `__d__`, the n-th (n >= 2) gets `__d_n`; for the                 *)
(* description "constructor" the first gets `__constructor_NaN`, the       *)
(* second `__constructor__` and the n-th (n >= 3) `__constructor_<n-1>`.   *)
(* `from <token "user_rows">` compiles to `from __user_rows__`.            *)
(***************************************************************************)
C9_AliasText ==
  /\ \A k \in DOMAIN assigned :
       LET d == assigned[k].n
           nth == NthOfDescription(k, d)
       IN  IF d # CONSTRUCTOR_NAME
           THEN assigned[k].id =
                  <<"_","_">> \o d \o (IF nth = 1 THEN <<"_","_">> ELSE <<"_">> \o NatToString(nth))
           ELSE assigned[k].id =
                  <<"_","_","c","o","n","s","t","r","u","c","t","o","r","_">>
                  \o (IF nth = 1 THEN <<"N","a","N">>
                      ELSE IF nth = 2 THEN <<"_">>
                      ELSE NatToString(nth - 1))
  /\ (CompileReturned /\ op.sql = fromToken => out.value.text = <<"f","r","o","m"," ","_","_","u","s","e","r","_","r","o","w","s","_","_">>)

C9_Witness ==
  /\ CompileReturned
  /\ op.sql = threeTokens
  /\ out.value.text = <<"_","_","u","_","_",".","_","_","u","_","2",".","_","_","u","_","3">>

\* C9 as stated: the first token of description d is rendered `__d_`.
C9_AsStated ==
  /\ \A k \in DOMAIN assigned :
       NthOfDescription(k, assigned[k].n) = 1
         => assigned[k].id = <<"_","_">> \o assigned[k].n \o <<"_">>
  /\ (CompileReturned /\ op.sql = fromToken => out.value.text = <<"f","r","o","m"," ","_","_","u","s","e","r","_","r","o","w","s","_">>)

(***************************************************************************)
(* C10.  compile keeps no state between calls: a compile of the arguments  *)
(* of an earlier compile has the result of that earlier compile, whatever  *)
(* was compiled in between; and the walk leaves the nodes of its input as  *)
(* they were.                                                              *)
(***************************************************************************)
C10_Deterministic ==
  /\ ( /\ CompileDone
       /\ remembered.set
       /\ remembered.sql = op.sql
       /\ remembered.placeholderValues = op.placeholderValues )
     => out = remembered.out
  /\ pc = "print" =>
       stack[1].items = (IF op.sql.type = "QUERY" THEN op.sql.nodes ELSE <<op.sql>>)

\* The same fragment compiled again after a compile of another one.
C10_Witness ==
  /\ CompileReturned
  /\ remembered.set
  /\ remembered.between
  /\ remembered.sql = op.sql
  /\ op.sql = sameToken
  /\ out.value.text = <<"_","_","u","_","_",".","_","_","u","_","2"," ","_","_","u","_","_">>

(***************************************************************************)
(* The cap on bound values: a walk over a query of capItemCount Value      *)
(* nodes, of which only the counter and the last placeholder are kept      *)
(***************************************************************************)
InitCap ==
  /\ isDev = FALSE
  /\ InitCommon
  /\ NoRequest
  /\ capItemCount \in {MAX_PLACEHOLDERS - 1, MAX_PLACEHOLDERS, MAX_PLACEHOLDERS + 1}
  /\ capIndex = 0
  /\ capValueCount = 0
  /\ capLast = <<>>
  /\ capOut = "walking"

\* case "VALUE" (lines 469-479) of the item at capIndex
CapValue ==
  /\ capOut = "walking"
  /\ capIndex < capItemCount
  /\ LET visit == ValueVisit(capValueCount)
     IN  /\ capValueCount' = visit.valueCount
         /\ IF visit.threw = "none"
            THEN /\ capLast' = visit.text
                 /\ capIndex' = capIndex + 1
                 /\ capOut' = capOut
            ELSE /\ capOut' = "threw"
                 /\ UNCHANGED <<capLast, capIndex>>
  /\ UNCHANGED <<isDev, pc, op, out, stack, scratch, remembered, request, rawVars, buildVars, capItemCount>>

\* the loop of print ends (line 411) and compile returns (lines 540-547)
CapReturn ==
  /\ capOut = "walking"
  /\ capIndex = capItemCount
  /\ capOut' = "returned"
  /\ UNCHANGED <<isDev, pc, op, out, stack, scratch, remembered, request, rawVars, buildVars,
                 capItemCount, capIndex, capValueCount, capLast>>

NextCap ==
  \/ CapValue
  \/ CapReturn

SpecCap == InitCap /\ [][NextCap]_vars

\* C4: a walk that visits exactly 65535 Value nodes returns and its last
\* placeholder is $65535; a walk that visits more than 65535 Value nodes never
\* returns: it throws at the 65536th, after the placeholder $65535.
C4_ValueCap ==
  /\ capOut = "returned" => capItemCount <= 65535
  /\ capOut = "returned" /\ capItemCount = 65535 =>
       capLast = <<"$","6","5","5","3","5">> /\ capValueCount = 65535
  /\ capOut = "threw" =>
       /\ capItemCount > 65535
       /\ capIndex = 65535
       /\ capLast = <<"$","6","5","5","3","5">>
  /\ capOut = "walking" /\ capIndex = capItemCount => capItemCount <= 65535

\* The 65536th Value node has been refused, after 65535 placeholders.
C4_Witness ==
  /\ capOut = "threw"
  /\ capItemCount = 65536
  /\ capIndex = 65535
  /\ capLast = <<"$","6","5","5","3","5">>

(***************************************************************************)
(* The constructors and the other operations of the API, each applied to   *)
(* arguments drawn at the start, and compile applied to what they return   *)
(***************************************************************************)
\* The number of parts of the longest identifier(...) call.
MaxParts == 2

\* The length of the longest string drawn for literal(...).
MaxLen == 2

\* The number of items of the longest join(...) call.
MaxItems == 2

\* The number of ${...} slots of the longest template.
MaxSlots == 2

\* Every sequence over S of length 0..n.
SeqUpTo(S, n) == UNION {[1..k -> S] : k \in 0..n}

plainObject == PlainObject(<<"a">>)

twoNodeQuery == Tpl(<<<<"a"," ","="," ">>, <<>>>>, <<V(1)>>)

\* { type: "QUERY", nodes: [] } without the trust mark
forgedEmptyQuery == Forged(makeQueryNode(<<>>))

\* { type: "QUERY", nodes: [{ type: "IDENTIFIER", names: [symA] }, forgedRaw] }
forgedIdentifierQuery ==
  Forged(makeQueryNode(<<Forged(Id(<<symA>>)), forgedRaw>>))

IdentifierParts ==
  { Str(<<"u","s","e","r","s">>), Str(<<"i","d">>), Str(<<"a","\"","b">>), Str(<<"\"">>), symT, IntNum(1), Undefined }

IdentifierRequests ==
  { [name |-> "identifier", names |-> names] : names \in SeqUpTo(IdentifierParts, MaxParts) }

ValueArgs ==
  { Str(<<"x">>), IntNum(1), Num(TRUE, 0, <<"5">>), Bool(TRUE), Null,
    Arr(<<IntNum(1), Arr(<<Str(<<"x">>)>>)>>), Arr(<<>>),
    plainObject, NaN, Infinity, Undefined, Arr(<<plainObject>>), Arr(<<NaN>>), symT }

ValueRequests == { [name |-> "value", val |-> v] : v \in ValueArgs }

LiteralChars == {"a", "Z", "9", "-", "'", "\\", ";", "\n", "\"", "."}

LiteralArgs ==
  { Str(s) : s \in SeqUpTo(LiteralChars, MaxLen) }
  \cup { Str(<<"h","e","l","l","o">>), Str(<<"i","t","'","s">>), Str(<<"Y","Y","Y","Y","-","M","M","-","D","D","\"","T","\"","H","H","2","4",":","M","I",":","S","S",".","U","S">>),
         IntNum(0), IntNum(42), Num(TRUE, 5, <<>>), Num(TRUE, 0, <<>>),
         Num(FALSE, 0, <<"5">>), Num(TRUE, 1, <<"2","5">>),
         NaN, Infinity, Bool(TRUE), Bool(FALSE), Null }

LiteralRequests == { [name |-> "literal", val |-> v] : v \in LiteralArgs }

JoinItems == { V(1), usersId, twoNodeQuery, forgedRaw, Str(<<"x">>) }

JoinRequests ==
  { [name |-> "join", items |-> Arr(items), separator |-> Str(sep)] :
      items \in SeqUpTo(JoinItems, MaxItems), sep \in {<<>>, <<","," ">>} }
  \cup { [name |-> "join", items |-> Str(<<"x">>), separator |-> Str(<<>>)] }
  \cup { [name |-> "join", items |-> Arr([i \in 1..k |-> V(i)]),
           separator |-> Str(<<",", " ">>)] : k \in 2..MaxValues }

TemplateValues == { V(1), usersId, twoNodeQuery, forgedRaw, Str(<<"x">>), plainObject, IntNum(1) }

\* The text pieces of a template of n slots that starts with `first`.
TemplateStrings(first, n) ==
  [i \in 1..(n + 1) |-> Str(IF i = 1 THEN first ELSE IF i = n + 1 THEN <<>> ELSE <<","," ">>)]

TemplateRequests ==
  { [name |-> "template", strings |-> TemplateStrings(first, Len(vals)), values |-> vals] :
      vals \in SeqUpTo(TemplateValues, MaxSlots), first \in {<<>>, <<"s","e","l","e","c","t"," ">>} }

\* sql`${value(1)} = ${value(2)}`
equalsQuery == Tpl(<<<<>>, <<" ", "=", " ">>, <<>>>>, <<V(1), V(2)>>)

\* sql`${parens(value(7))}`: a Query of one Parens node
singleParensQuery == Tpl(<<<<>>, <<>>>>, <<parensValue>>)

ParensArgs(dev) ==
  { singleParensQuery, indent(dev, singleParensQuery), indent(dev, twoNodeQuery),
    parens(equalsQuery, FALSE).value,
    equalsQuery, V(7), makeRawNode(<<"1">>), makeRawNode(<<"a"," ","+"," ","b">>), twoNodeQuery, usersId,
    parensValue, parensForced, indent(dev, V(1)), indent(dev, parensValue),
    forgedRaw, forgedEmptyQuery, forgedQuery,
    Str(<<"s","e","l","e","c","t"," ","1">>), IntNum(1), plainObject, Undefined, Null }

ParensRequests(dev) ==
  { [name |-> "parens", fragment |-> f, force |-> force] :
      f \in ParensArgs(dev), force \in BOOLEAN }

\* value([1]) called twice, each time with a new array
arrayValue(k) == value(Instance(Arr(<<IntNum(1)>>), k)).value

\* symbolAlias(a, b) called twice
aliasInstance(k) == Instance(symbolAlias(symA, symB), k)

EquivalentFragments ==
  { makeRawNode(<<"y">>), value(Str(<<"x">>)).value, arrayValue(1), arrayValue(2),
    Id(<<symT>>), Id(<<symE>>), Id(<<Str(<<"x">>)>>),
    Id(<<symA, Str(<<"i","d">>)>>), Id(<<symB, Str(<<"i","d">>)>>), Id(<<symB, Str(<<"n","o">>)>>),
    makeIndentNode(V(1)), makeIndentNode(V(2)), makeIndentNode(Id(<<symA>>)),
    makeIndentNode(Id(<<symB>>)),
    parens(equalsQuery, FALSE).value, parens(equalsQuery, TRUE).value,
    parens(Tpl(<<<<>>, <<" ","="," ">>, <<>>>>, <<Id(<<symA>>), V(1)>>), FALSE).value,
    parens(Tpl(<<<<>>, <<" ","="," ">>, <<>>>>, <<Id(<<symB>>), V(1)>>), FALSE).value,
    Tpl(<<<<"a"," ","="," ">>, <<>>>>, <<V(2)>>), Tpl(<<<<"a"," ","="," ">>, <<" ">>>>, <<V(1)>>),
    placeholder(symP, Undefined), placeholder(symP, V(3)), placeholder(symQ, Undefined),
    placeholder(symP2, Undefined), placeholder(symP, V(1)),
    aliasInstance(1), aliasInstance(2),
    Tpl(<<<<>>, <<" ">>>>, <<aliasInstance(1)>>), Tpl(<<<<>>, <<" ">>>>, <<aliasInstance(2)>>) }

EquivalentArgs ==
  { V(1), V(2), makeRawNode(<<"x">>), Id(<<symA>>), Id(<<symB>>), twoNodeQuery,
    forgedRaw, Str(<<"x">>), IntNum(1), plainObject, Undefined, symA, symB }
  \cup EquivalentFragments

\* Substitution maps without a cycle
SubstituteMaps ==
  { EmptyMap, symA :> symB, (symA :> symB) @@ (symB :> symE), symT :> symA,
    symP :> symQ }

IsEquivalentRequests ==
  { [name |-> "isEquivalent", sql1 |-> a, sql2 |-> b, symbolSubstitutes |-> subs] :
      a \in EquivalentArgs, b \in EquivalentArgs, subs \in SubstituteMaps }

ReplaceSymbolArgs(dev) ==
  { Id(<<symA, Str(<<"i","d">>)>>), placeholderTwice, V(1), parensValue, indent(dev, V(1)),
    symbolAlias(symA, symB), forgedIdentifierQuery, forgedQuery, forgedRaw,
    Str(<<"x">>), plainObject, IntNum(1), Undefined }

RECURSIVE Original(_)
\* The fragment f as the caller holds it before a call: every node of it is
\* an instance of its own, which a node the call builds is not.
Original(f) ==
  Instance(
    CASE f.type = "QUERY" -> [f EXCEPT !.nodes = [i \in DOMAIN f.nodes |-> Original(f.nodes[i])]]
      [] f.type \in {"INDENT", "PARENS"} -> [f EXCEPT !.content = Original(f.content)]
      [] f.type = "PLACEHOLDER" /\ isSQL(f.fallback) ->
           [f EXCEPT !.fallback = Original(f.fallback)]
      [] OTHER -> f,
    1)

ReplaceSymbolFragments ==
  { Original(f) :
      f \in { Id(<<symA, Str(<<"i","d">>)>>), Id(<<symA, symB, symA>>), value(symA).value,
              makeIndentNode(Id(<<symA>>)), makeIndentNode(symbolAlias(symB, symE)),
              makeIndentNode(arrayValue(1)),
              parens(Tpl(<<<<>>, <<" ","="," ">>, <<>>>>, <<Id(<<symA>>), V(1)>>), TRUE).value,
              parens(makeIndentNode(symbolAlias(symA, symB)), TRUE).value,
              symbolAlias(symA, symB), symbolAlias(symB, symA), symbolAlias(symA, symA),
              symbolAlias(symB, symE),
              placeholder(symA, Undefined), placeholder(symA, Id(<<symA>>)),
              placeholder(symP, Id(<<symA>>)), placeholder(symB, V(3)),
              Tpl(<<<<>>, <<" ">>, <<" ">>, <<>>>>,
                  <<symbolAlias(symA, symB), Id(<<symA>>), placeholder(symA, V(1))>>),
              Tpl(<<<<>>, <<" ">>, <<>>>>, <<symbolAlias(symB, symE), V(1)>>),
              Tpl(<<<<>>, <<" ">>, <<>>>>, <<makeIndentNode(V(1)), symbolAlias(symB, symE)>>),
              twoNodeQuery, makeRawNode(<<"x">>) } }

ReplaceSymbolRequests(dev) ==
  { [name |-> "replaceSymbol", frag |-> f, needle |-> p[1], replacement |-> p[2]] :
      f \in ReplaceSymbolArgs(dev) \cup ReplaceSymbolFragments,
      p \in {<<symA, symB>>, <<symP, symQ>>, <<symA, symA>>, <<symP, symP>>,
             <<symA, symT>>} }

SymbolAliasRequests ==
  { [name |-> "symbolAlias", symbol1 |-> p[1], symbol2 |-> p[2]] :
      p \in {<<symA, symB>>, <<symA, symA>>} }

PlaceholderRequests ==
  { [name |-> "placeholder", symbol |-> symP, fallback |-> f] :
      f \in {Undefined, V(3), forgedRaw} }

IndentRequests ==
  { [name |-> "indent", fragment |-> f] : f \in {V(1), twoNodeQuery, parensValue} }

\* compile(f, { placeholderValues }) for fragments f that hold a Placeholder
PlaceholderCompileRequests ==
  { [name |-> "compile", sql |-> f, placeholderValues |-> m, observe |-> FALSE] :
      f \in {placeholderFallback, placeholderTwice, placeholderNested,
             placeholderForgedFallback},
      m \in {NoValues, symP :> V(2), symP2 :> V(2), symQ :> V(1),
             (symP :> V(2)) @@ (symQ :> V(1))} }

\* sql`${symbolAlias(a, b)}${identifier(a)}/${identifier(b)}${symbolAlias(b, a)}${identifier(b)}`
aliasTwice ==
  Tpl(<<<<>>, <<>>, <<"/">>, <<>>, <<>>, <<>>>>,
      <<symbolAlias(symA, symB), Id(<<symA>>), Id(<<symB>>), symbolAlias(symB, symA),
        Id(<<symB>>)>>)

\* sql`${identifier(a)}${symbolAlias(a, a)}/${identifier(a)}`
aliasSelfAfterUse ==
  Tpl(<<<<>>, <<>>, <<"/">>, <<>>>>, <<Id(<<symA>>), symbolAlias(symA, symA), Id(<<symA>>)>>)

\* compile(f) for fragments f that hold a SymbolAlias
AliasCompileRequests ==
  { [name |-> "compile", sql |-> f, placeholderValues |-> NoValues, observe |-> FALSE] :
      f \in {aliasAfterUse, aliasBeforeUse, aliasThenThird, aliasAcrossNames, aliasTwice,
             aliasSelfAfterUse} }

CompileRequests ==
  { [name |-> "compile", sql |-> f, placeholderValues |-> NoValues, observe |-> FALSE] :
      f \in {V(1), forgedRaw, Str(<<"s","e","l","e","c","t"," ","1">>), IntNum(1), plainObject, Undefined} }

\* Programs that build one fragment by constructor calls, as run in a process
\* of the given mode:
\*   sql`;`
\*   sql`${indent(value(1))};`
\*   indent(sql`a\n\nb ${indent(parens(value(2)))}\n`)
\*   sql`select ${value(1)};`
\*   sql`${blank};`
\*   parens(sql`;`, true)
\*   sql`select ${indent(parens(sql`${value(1)} = ${value(2)}`))} from ${identifier(a)};`
\*   sql`${indent(sql`${symbolAlias(a, b)}${identifier(a)}`)} ${identifier(b)}, ${identifier(e)}`
\*   sql`${parens(indent(value(1)))} ${value(2)}`
\*   sql`${indent(sql`;`)}`
Programs(dev) ==
  << semicolonOnly,
     indentedThenSemicolon(dev),
     indentedLines(dev),
     Tpl(<<<<"s","e","l","e","c","t"," ">>, <<";">>>>, <<V(1)>>),
     Tpl(<<<<>>, <<";">>>>, <<blank>>),
     parens(semicolonOnly, TRUE).value,
     Tpl(<<<<"s","e","l","e","c","t"," ">>, <<" ","f","r","o","m"," ">>, <<";">>>>,
         <<indent(dev, parens(equalsQuery, FALSE).value), Id(<<symA>>)>>),
     Tpl(<<<<>>, <<" ">>, <<",", " ">>, <<>>>>,
         <<indent(dev, Tpl(<<<<>>, <<>>, <<>>>>, <<symbolAlias(symA, symB), Id(<<symA>>)>>)),
           Id(<<symB>>), Id(<<symE>>)>>),
     Tpl(<<<<>>, <<" ">>, <<>>>>, <<parens(indent(dev, V(1)), FALSE).value, V(2)>>),
     Tpl(<<<<>>, <<>>>>, <<indent(dev, semicolonOnly)>>) >>

\* compile(f) of the fragment f that the k-th program builds
ProgramCompileRequests(dev) ==
  { [name |-> "compile", sql |-> Programs(dev)[k], placeholderValues |-> NoValues,
     observe |-> FALSE, program |-> k] : k \in DOMAIN Programs(dev) }

\* Maps of any shape - chains, cycles, handles mapped to themselves - over a
\* few handles, and pairs of identifiers to resolve through them
MaxHandles == 3

Handles == { TokenU(k) : k \in 1..MaxHandles }

PartialMaps(S) == UNION { [D -> S] : D \in SUBSET S }

\* A chain of SUBSTITUTE_DEPTH hops: c1 -> c2 -> ... and a last handle that is
\* not mapped
ChainHandle(k) == Sym(k, <<"c">>)

longChain == [s \in { ChainHandle(k) : k \in 1..SUBSTITUTE_DEPTH } |-> ChainHandle(s.id + 1)]

\* identifier(s1) and identifier(s2): two nodes, even when s1 is s2
ResolveRequests ==
  { [name |-> "isEquivalent", sql1 |-> Instance(Id(<<s1>>), 1),
     sql2 |-> Instance(Id(<<s2>>), 2), symbolSubstitutes |-> m] :
      s1 \in Handles, s2 \in Handles, m \in PartialMaps(Handles) }
  \cup
  { [name |-> "isEquivalent", sql1 |-> Id(<<ChainHandle(k)>>),
     sql2 |-> Id(<<ChainHandle(k + 1)>>), symbolSubstitutes |-> longChain] : k \in 1..2 }

\* The calls a caller can be about to make.
ApiRequests(dev) ==
  IdentifierRequests \cup ValueRequests \cup LiteralRequests \cup JoinRequests
  \cup TemplateRequests \cup ParensRequests(dev) \cup IsEquivalentRequests
  \cup ReplaceSymbolRequests(dev) \cup SymbolAliasRequests \cup PlaceholderRequests
  \cup IndentRequests \cup CompileRequests \cup PlaceholderCompileRequests
  \cup AliasCompileRequests \cup ProgramCompileRequests(dev) \cup ResolveRequests

InitApi ==
  /\ isDev \in BOOLEAN
  /\ InitCommon
  /\ CapIdle
  /\ request \in ApiRequests(isDev)

\* The caller is about to make the call `name`.
Requested(name) == pc = "idle" /\ op = NoCall /\ request.name = name

\* What a call that is no compile leaves alone.
callFrame == <<isDev, pc, stack, scratch, remembered, request, capVars, rawVars, buildVars>>

DoIdentifier ==
  /\ Requested("identifier")
  /\ op' = request
  /\ out' = identifier(request.names)
  /\ UNCHANGED callFrame

DoValue ==
  /\ Requested("value")
  /\ op' = request
  /\ out' = value(request.val)
  /\ UNCHANGED callFrame

DoLiteral ==
  /\ Requested("literal")
  /\ op' = request
  /\ out' = literal(request.val)
  /\ UNCHANGED callFrame

DoJoin ==
  /\ Requested("join")
  /\ op' = request
  /\ out' = join(request.items, request.separator)
  /\ UNCHANGED callFrame

DoTemplate ==
  /\ Requested("template")
  /\ op' = request
  /\ out' = sqlBase(request.strings, request.values)
  /\ UNCHANGED callFrame

DoParens ==
  /\ Requested("parens")
  /\ op' = request
  /\ out' = parens(request.fragment, request.force)
  /\ UNCHANGED callFrame

\* parens(p, force) of the fragment p that parens(fragment, force) returned
DoParensAgain ==
  /\ pc = "idle"
  /\ op.name = "parens"
  /\ out.threw = "none"
  /\ op' = [name |-> "parensAgain", fragment |-> op.fragment, force |-> op.force,
            first |-> out.value]
  /\ out' = parens(out.value, op.force)
  /\ UNCHANGED callFrame

DoIsEquivalent ==
  /\ Requested("isEquivalent")
  /\ op' = request
  /\ out' = isEquivalent(request.sql1, request.sql2, request.symbolSubstitutes)
  /\ UNCHANGED callFrame

DoReplaceSymbol ==
  /\ Requested("replaceSymbol")
  /\ op' = request
  /\ out' = replaceSymbol(request.frag, request.needle, request.replacement)
  /\ UNCHANGED callFrame

\* isEquivalent(replaceSymbol(frag, needle, replacement), frag)
DoIsEquivalentToOriginal ==
  /\ pc = "idle"
  /\ op.name = "replaceSymbol"
  /\ out.threw = "none"
  /\ op' = [name |-> "isEquivalentToOriginal", frag |-> op.frag, needle |-> op.needle,
            replacement |-> op.replacement, replaced |-> out]
  /\ out' = isEquivalent(out.value, op.frag, EmptyMap)
  /\ UNCHANGED callFrame

DoSymbolAlias ==
  /\ Requested("symbolAlias")
  /\ op' = request
  /\ out' = Returned(symbolAlias(request.symbol1, request.symbol2))
  /\ UNCHANGED callFrame

DoPlaceholder ==
  /\ Requested("placeholder")
  /\ op' = request
  /\ out' = Returned(placeholder(request.symbol, request.fallback))
  /\ UNCHANGED callFrame

DoIndent ==
  /\ Requested("indent")
  /\ op' = request
  /\ out' = Returned(indent(isDev, request.fragment))
  /\ UNCHANGED callFrame

\* compile(sql) called directly
DoCompile ==
  /\ Requested("compile")
  /\ CompileEnter(request)

\* What a process of the other mode is left with: the program run again from
\* its first constructor call, the outcome of this process kept for the
\* comparison.
OtherMode ==
  /\ pc = "idle"
  /\ op.name = "compile"
  /\ "program" \in DOMAIN op
  /\ ~remembered.set
  /\ isDev' = ~isDev
  /\ request' = [request EXCEPT !.sql = Programs(~isDev)[op.program]]
  /\ op' = NoCall
  /\ out' = NoResult
  /\ remembered' = [set |-> TRUE, isDev |-> isDev, out |-> out,
                    symbolToIdentifier |-> symbolToIdentifier, assigned |-> assigned]
  /\ UNCHANGED <<pc, stack, scratch, capVars, rawVars, buildVars>>

\* compile(f) of the fragment f the call returned
CompileResult ==
  /\ op.name \notin {"none", "compile", "isEquivalent", "isEquivalentToOriginal"}
  /\ out.threw = "none"
  /\ CompileEnter([name |-> "compile", sql |-> out.value, placeholderValues |-> NoValues,
                   observe |-> FALSE, of |-> op])

\* The placeholder maps two equivalent fragments are compiled with
DedupMaps == { NoValues, symP :> V(2) }

\* compile(a, m) once isEquivalent(a, b) returned true
CompileFirst ==
  /\ op.name = "isEquivalent"
  /\ out = Returned(TRUE)
  /\ isSQL(op.sql1) /\ isSQL(op.sql2)
  /\ op.symbolSubstitutes = EmptyMap
  /\ \E m \in DedupMaps :
       CompileEnter([name |-> "compile", sql |-> op.sql1, placeholderValues |-> m,
                     observe |-> FALSE, other |-> op.sql2])

\* compile(b, m) after compile(a, m), whose outcome the caller keeps
CompileSecond ==
  /\ op.name = "compile"
  /\ "other" \in DOMAIN op
  /\ CompileEnter([name |-> "compile", sql |-> op.other, placeholderValues |-> op.placeholderValues,
                   observe |-> FALSE, first |-> out, firstSql |-> op.sql])

NextApi ==
  \/ DoIdentifier
  \/ DoValue
  \/ DoLiteral
  \/ DoJoin
  \/ DoTemplate
  \/ DoParens
  \/ DoParensAgain
  \/ DoIsEquivalent
  \/ DoReplaceSymbol
  \/ DoIsEquivalentToOriginal
  \/ DoSymbolAlias
  \/ DoPlaceholder
  \/ DoIndent
  \/ DoCompile
  \/ OtherMode
  \/ CompileResult
  \/ CompileFirst
  \/ CompileSecond
  \/ PrintStep

SpecApi == InitApi /\ [][NextApi]_vars

(***************************************************************************)
(* Reference definitions for the properties of the constructors            *)
(***************************************************************************)
\* A call that is no compile has been made and has ended.
CallDone(name) == pc = "idle" /\ op.name = name

\* compile(f) has ended, f being what the call `name` returned.
CompileOfDone(name) ==
  /\ CompileDone
  /\ "of" \in DOMAIN op
  /\ op.of.name = name

\* A double quote, s with every double quote written twice, a double quote.
QuotedPart(s) ==
  <<"\"">> \o Concat([i \in DOMAIN s |-> IF s[i] = "\"" THEN <<"\"", "\"">> ELSE <<s[i]>>])
  \o <<"\"">>

\* The length of the run of double quotes of t that ends at position i.
QuoteRun(t, i) ==
  LET others == {j \in 1..i : t[j] # "\""}
  IN  i - (IF others = {} THEN 0 ELSE CHOOSE m \in others : \A k \in others : k <= m)

\* t starts and ends with a double quote and every double quote between them
\* is one of a pair.
QuotesPaired(t) ==
  /\ Len(t) >= 2
  /\ t[1] = "\""
  /\ t[Len(t)] = "\""
  /\ LET inner == SubSeq(t, 2, Len(t) - 1)
     IN  \A i \in DOMAIN inner :
           (inner[i] = "\"" /\ (i = Len(inner) \/ inner[i + 1] # "\""))
             => QuoteRun(inner, i) % 2 = 0

AllStrings(names) == \A i \in DOMAIN names : names[i].js = "string"

\* The characters literal(...) writes inline.
INLINE_CHARS ==
  Range(LOWER) \cup Range(UPPER) \cup Range(DIGITS)
  \cup {"-", "_", "@", "!", "$", " ", ":", "\"", "."}

\* The decimal text of a finite number.
DecimalText(v) ==
  (IF v.neg /\ (v.int # 0 \/ v.frac # <<>>) THEN <<"-">> ELSE <<>>)
  \o NatToString(v.int)
  \o (IF v.frac = <<>> THEN <<>> ELSE <<".">> \o v.frac)

\* The text literal(v) writes inline, or <<>> with safe = FALSE when v is
\* to be bound as a value.
InlineLiteral(v) ==
  CASE v.js = "string" /\ Range(v.str) \subseteq INLINE_CHARS ->
         [safe |-> TRUE, text |-> <<"'">> \o v.str \o <<"'">>]
    [] v.js = "number" /\ v.kind = "finite" /\ v.frac = <<>> ->
         [safe |-> TRUE, text |-> DecimalText(v)]
    [] v.js = "number" /\ v.kind = "finite" /\ v.frac # <<>> ->
         [safe |-> TRUE,
          text |-> <<"'">> \o DecimalText(v) \o <<"'", ":", ":", "f", "l", "o", "a", "t">>]
    [] v.js = "boolean" ->
         [safe |-> TRUE, text |-> IF v.bool THEN <<"T","R","U","E">> ELSE <<"F","A","L","S","E">>]
    [] v.js = "null" -> [safe |-> TRUE, text |-> <<"N","U","L","L">>]
    [] OTHER -> [safe |-> FALSE, text |-> <<>>]

RECURSIVE IsScalar(_)
\* string | finite number | boolean | null | an array of these, nested or not
IsScalar(v) ==
  \/ v.js \in {"string", "boolean", "null"}
  \/ v.js = "number" /\ v.kind = "finite"
  \/ v.js = "array" /\ \A i \in DOMAIN v.items : IsScalar(v.items[i])

\* The values at the fragment positions of a call.
FragmentArguments(call) ==
  CASE call.name = "template" -> Range(call.values)
    [] call.name = "join" ->
         IF call.items.js = "array" THEN Range(call.items.items) ELSE {}
    [] call.name = "parens" -> {call.fragment}
    [] call.name = "compile" -> {call.sql}
    [] call.name = "isEquivalent" -> {x \in {call.sql1, call.sql2} : x.js # "symbol"}
    [] call.name = "replaceSymbol" -> {call.frag}
    [] OTHER -> {}

HasNonFragment(call) == \E x \in FragmentArguments(call) : ~HasTrustMark(x)

(***************************************************************************)
(* C2.  A call of the template tag, join, parens, compile, isEquivalent or *)
(* replaceSymbol with a value that is no fragment at a fragment position   *)
(* fails with the invalid-fragment error.                                  *)
(***************************************************************************)
C2_AsStated ==
  (pc = "idle" /\ op.name # "none" /\ HasNonFragment(op)) => out.threw = "InvalidFragment"

(***************************************************************************)
(* C5.  identifier(p1..pn) fails exactly when n = 0 or some part is        *)
(* neither a string nor a token.  Otherwise every string part s is kept as *)
(* a double quote, s with each double quote doubled, a double quote: a     *)
(* text with no unpaired double quote; and an identifier of string parts   *)
(* compiles to these texts joined with `.` and no values.                  *)
(***************************************************************************)
C5_Identifier ==
  /\ CallDone("identifier") =>
       LET names == op.names
           bad == Len(names) = 0 \/ \E i \in DOMAIN names : names[i].js \notin {"string", "symbol"}
       IN  /\ (out.threw # "none") <=> bad
           /\ out.threw = "none" =>
                /\ out.value.type = "IDENTIFIER"
                /\ Len(out.value.names) = Len(names)
                /\ \A i \in DOMAIN names :
                     names[i].js = "string" =>
                       /\ out.value.names[i] = Str(QuotedPart(names[i].str))
                       /\ QuotesPaired(out.value.names[i].str)
  /\ (CompileOfDone("identifier") /\ AllStrings(op.of.names)) =>
       out = Returned([text |-> JoinWith([i \in DOMAIN op.of.names |->
                                            QuotedPart(op.of.names[i].str)], <<".">>),
                       values |-> <<>>])
  /\ (CompileOfDone("identifier")
      /\ op.of.names = <<Str(<<"u","s","e","r","s">>), Str(<<"i","d">>)>>) =>
       out.value.text = <<"\"","u","s","e","r","s","\"",".","\"","i","d","\"">>

\* identifier('a"b', "id") has been compiled.
C5_Witness ==
  /\ CompileOfDone("identifier")
  /\ op.of.names = <<Str(<<"a","\"","b">>), Str(<<"i","d">>)>>
  /\ out = Returned([text |-> <<"\"","a","\"","\"","b","\"",".","\"","i","d","\"">>,
                     values |-> <<>>])

(***************************************************************************)
(* C6.  literal(v) never fails.  It returns a Raw node, whose text is      *)
(* 'v' for a string of inline characters, the decimal text for a finite    *)
(* integer, '<n>'::float for a finite non-integer, TRUE / FALSE for a      *)
(* boolean and NULL for null; for every other string and every non-finite  *)
(* number it returns a Value node holding v.  Compiled, the former is its  *)
(* text with no values and the latter is $1 with values [v].               *)
(***************************************************************************)
C6_Literal ==
  /\ CallDone("literal") =>
       /\ out.threw = "none"
       /\ IF InlineLiteral(op.val).safe
          THEN /\ out.value.type = "RAW"
               /\ out.value.text = InlineLiteral(op.val).text
               /\ HasTrustMark(out.value)
          ELSE /\ out.value.type = "VALUE"
               /\ out.value.value = op.val
               /\ HasTrustMark(out.value)
  /\ CompileOfDone("literal") =>
       IF InlineLiteral(op.of.val).safe
       THEN out = Returned([text |-> InlineLiteral(op.of.val).text, values |-> <<>>])
       ELSE out = Returned([text |-> <<"$", "1">>, values |-> <<op.of.val>>])
  /\ (CompileOfDone("literal") /\ op.of.val = Str(<<"h","e","l","l","o">>)) =>
       out = Returned([text |-> <<"'","h","e","l","l","o","'">>, values |-> <<>>])

\* literal("it's") has been compiled.
C6_Witness ==
  /\ CompileOfDone("literal")
  /\ op.of.val = Str(<<"i","t","'","s">>)
  /\ out = Returned([text |-> <<"$", "1">>, values |-> <<Str(<<"i","t","'","s">>)>>])

(***************************************************************************)
(* C7.  value(v) returns for a scalar v (a string, a finite number, a      *)
(* boolean, null, an array of scalars) and fails for every other v, so the *)
(* Value node it returns holds a scalar.                                   *)
(***************************************************************************)
C7_AsStated ==
  CallDone("value") =>
    /\ (out.threw = "none") <=> IsScalar(op.val)
    /\ out.threw = "none" => IsScalar(out.value.value)

(***************************************************************************)
(* Reference definitions for Placeholder nodes                             *)
(***************************************************************************)
\* What a Placeholder stands for: the fragment the map holds for its very
\* handle, else its fallback (Undefined when it has none).
StandsFor(n, m) == IF n.symbol \in DOMAIN m THEN m[n.symbol] ELSE n.fallback

\* The positions of a walk that hold a Placeholder with neither.
UnresolvedAt(w, m) ==
  {i \in DOMAIN w : /\ HasTrustMark(w[i])
                    /\ w[i].type = "PLACEHOLDER"
                    /\ StandsFor(w[i], m) = Undefined}

\* The item the k-th activation of print is working on.
ItemOfFrame(k) == stack[k].items[stack[k].itemIndex + 1]

(***************************************************************************)
(* C11.  For a Placeholder node compile prints the fragment the caller's   *)
(* map holds for the node's handle, the fallback only when the map holds   *)
(* none, and throws the unresolved-placeholder error when there is neither *)
(* (and no node before it in the walk raises an error of its own).  A map  *)
(* entry for another handle of the same description is no entry.           *)
(***************************************************************************)
C11_PlaceholderResolution ==
  /\ pc = "print" =>
       \A k \in 2..Len(stack) :
         ItemOfFrame(k - 1).type = "PLACEHOLDER" =>
           LET r == StandsFor(ItemOfFrame(k - 1), op.placeholderValues)
           IN  stack[k].items = (IF r.type = "QUERY" THEN r.nodes ELSE <<r>>)
  /\ (CompileDone /\ HasTrustMark(op.sql)) =>
       LET u == UnresolvedAt(Walk, op.placeholderValues)
       IN  /\ out.threw = "UnresolvedPlaceholder" => u # {}
           /\ u # {} =>
                /\ out.threw # "none"
                /\ LET first == CHOOSE i \in u : \A j \in u : i <= j
                   IN  (\A i \in 1..(first - 1) : Benign(Walk[i], op.placeholderValues))
                         => out.threw = "UnresolvedPlaceholder"
  /\ (CompileDone /\ op.sql = placeholderFallback) =>
       out = Returned([text |-> <<"$", "1">>,
                       values |-> IF symP \in DOMAIN op.placeholderValues
                                  THEN <<IntNum(2)>> ELSE <<IntNum(3)>>])

\* The map holds a fragment for another handle described "p": the fallback
\* is printed.
C11_Witness ==
  /\ CompileDone
  /\ op.sql = placeholderFallback
  /\ op.placeholderValues = (symP2 :> V(2))
  /\ out = Returned([text |-> <<"$", "1">>, values |-> <<IntNum(3)>>])

(***************************************************************************)
(* Reference definitions for SymbolAlias nodes                             *)
(***************************************************************************)
\* print is about to work on a SymbolAlias(a, b) whose tokens both have an
\* alias already.
AtAliasOfAssigned ==
  /\ HasItem
  /\ HasTrustMark(Item)
  /\ Item.type = "SYMBOL_ALIAS"
  /\ Item.a.s \in DOMAIN symbolToIdentifier
  /\ Item.b.s \in DOMAIN symbolToIdentifier

AliasesDiffer == symbolToIdentifier[Item.a.s] # symbolToIdentifier[Item.b.s]

\* The step over a SymbolAlias of two assigned tokens: the conflicting-alias
\* error when their aliases differ; otherwise no text, and the aliases, the
\* counters and the values stay as they are.
AliasOfAssignedStep ==
  AtAliasOfAssigned =>
    IF AliasesDiffer
    THEN pc' = "idle" /\ out' = Threw("ConflictingSymbolAlias")
    ELSE /\ pc' = "print"
         /\ out' = out
         /\ UNCHANGED scratch
         /\ Len(stack') = Len(stack)
         /\ stack'[Len(stack)].sqlFragments = Top.sqlFragments
         /\ stack'[Len(stack)].itemIndex = Top.itemIndex + 1

(***************************************************************************)
(* C12.  When compile reaches a SymbolAlias(a, b) whose tokens both have   *)
(* an alias, it throws the conflicting-alias error if the aliases differ,  *)
(* and otherwise goes on with nothing changed.                             *)
(***************************************************************************)
C12_SymbolAliasOfAssigned == [][AliasOfAssignedStep]_vars

\* A SymbolAlias(b, a) met after a and b were bound to one alias has been
\* passed, and the compile has returned.
C12_Witness ==
  /\ CompileReturned
  /\ op.sql = aliasTwice
  /\ out.value.text = <<"_","_","u","_","_","/","_","_","u","_","_","_","_","u","_","_">>

\* A SymbolAlias(a, b) met after a and b were rendered apart has been refused.
C12_WitnessConflict ==
  /\ CompileDone
  /\ op.sql = aliasAfterUse
  /\ out = Threw("ConflictingSymbolAlias")

(***************************************************************************)
(* Reference definitions for Parens nodes                                  *)
(***************************************************************************)
\* print has finished the content of a Parens node and is about to return
\* to the print that works on that node.
AtParensReturn ==
  /\ pc = "print"
  /\ Len(stack) > 1
  /\ Top.itemIndex = Len(Top.items)
  /\ ItemOfFrame(Len(stack) - 1).type = "PARENS"

\* The step back to the Parens node: the text pushed for the node is the
\* inner text between `(` and `)` if the node is forced or the inner text is
\* not parens-safe, and the inner text itself otherwise.
ParensReturnStep ==
  AtParensReturn =>
    LET inner == Concat(Top.sqlFragments)
        caller == stack[Len(stack) - 1]
        node == ItemOfFrame(Len(stack) - 1)
        emitted == IF node.force \/ ~isParensSafe(inner)
                   THEN <<"(">> \o inner \o <<")">> ELSE inner
    IN  /\ Len(stack') = Len(stack) - 1
        /\ stack'[Len(stack')].sqlFragments = Append(caller.sqlFragments, emitted)
        /\ stack'[Len(stack')].itemIndex = caller.itemIndex + 1

(***************************************************************************)
(* C13.  compile of a Parens node emits `(` inner `)` if and only if the   *)
(* node is forced or the rendered inner text is not parens-safe, and the   *)
(* inner text unchanged otherwise.                                         *)
(***************************************************************************)
C13_ParensWrap == [][ParensReturnStep]_vars

\* parens(sql`${value(1)} = ${value(2)}`) has been compiled.
C13_Witness ==
  /\ CompileOfDone("parens")
  /\ op.of.fragment = equalsQuery
  /\ ~op.of.force
  /\ out = Returned([text |-> <<"(","$","1"," ","="," ","$","2",")">>,
                     values |-> <<IntNum(1), IntNum(2)>>])

\* parens(value(7)) has been compiled.
C13_WitnessBare ==
  /\ CompileOfDone("parens")
  /\ op.of.fragment = V(7)
  /\ ~op.of.force
  /\ out = Returned([text |-> <<"$","1">>, values |-> <<IntNum(7)>>])

(***************************************************************************)
(* C14.  parens is idempotent: for a fragment f and a force value, the     *)
(* call parens(parens(f, force), force) returns a fragment equivalent to   *)
(* parens(f, force): a Parens node of the same force flag and the same     *)
(* content, with no further Parens node around it.                         *)
(***************************************************************************)
C14_ParensIdempotent ==
  (CallDone("parensAgain") /\ HasTrustMark(op.fragment)) =>
    /\ out.threw = "none"
    /\ op.first.type = "PARENS"
    /\ out.value.type = "PARENS"
    /\ out.value.force = op.first.force
    /\ out.value.content = op.first.content
    /\ isEquivalent(out.value, op.first, EmptyMap) = Returned(TRUE)

\* parens(parens(p, true), true) for an unforced Parens node p
C14_Witness ==
  /\ CallDone("parensAgain")
  /\ op.fragment = parensValue
  /\ op.force
  /\ op.first = parensForced
  /\ out = Returned(parensForced)

(***************************************************************************)
(* Reference definitions for join                                          *)
(***************************************************************************)
\* The nodes a fragment contributes to a Query it is put into.
NodesOf(f) == IF f.type = "QUERY" THEN f.nodes ELSE <<f>>

\* The nodes of the items in order, with one Raw(sep) between each two
\* consecutive items when sep is not empty.
JoinedNodes(items, sep) ==
  Concat([k \in 1..(2 * Len(items) - 1) |->
            IF k % 2 = 1 THEN NodesOf(items[(k + 1) \div 2])
            ELSE IF sep = <<>> THEN <<>>
            ELSE <<[js |-> "object", type |-> "RAW", text |-> sep, trusted |-> TRUE]>>])

\* join was called with an array of fragments and a string.
JoinOfFragments(call) ==
  /\ call.name = "join"
  /\ call.items.js = "array"
  /\ call.separator.js = "string"
  /\ \A i \in DOMAIN call.items.items : HasTrustMark(call.items.items[i])

(***************************************************************************)
(* C15.  join(items, sep) returns the empty fragment for no item, the item *)
(* itself for one item, and for two or more a Query of the items' nodes in *)
(* order (the nodes of a Query item taking the place of the item) with     *)
(* exactly one Raw(sep) between consecutive items when sep is not empty    *)
(* and nothing between them when it is.  join([value(1), value(2),         *)
(* value(3)], ", ") compiles to `$1, $2, $3` with values [1, 2, 3].        *)
(***************************************************************************)
C15_Join ==
  /\ (pc = "idle" /\ JoinOfFragments(op)) =>
       LET items == op.items.items
       IN  /\ out.threw = "none"
           /\ Len(items) = 0 => out.value = blank /\ out.value.text = <<>>
           /\ Len(items) = 1 => out.value = items[1]
           /\ Len(items) >= 2 =>
                /\ out.value.type = "QUERY"
                /\ HasTrustMark(out.value)
                /\ out.value.nodes = JoinedNodes(items, op.separator.str)
  /\ (CompileOfDone("join")
      /\ op.of.items = Arr(<<V(1), V(2), V(3)>>)
      /\ op.of.separator = Str(<<",", " ">>)) =>
       out = Returned([text |-> <<"$","1",",", " ","$","2",",", " ","$","3">>,
                       values |-> <<IntNum(1), IntNum(2), IntNum(3)>>])

\* A join of a Query and a Value with a separator has been made.
C15_Witness ==
  /\ CallDone("join")
  /\ op.items = Arr(<<twoNodeQuery, V(1)>>)
  /\ op.separator = Str(<<",", " ">>)
  /\ out.threw = "none"
  /\ Len(out.value.nodes) = 4
  /\ out.value.nodes[3] = makeRawNode(<<",", " ">>)

\* join([value(1), value(2), value(3)], ", ") has been compiled.
C15_WitnessCompiled ==
  /\ CompileOfDone("join")
  /\ op.of.items = Arr(<<V(1), V(2), V(3)>>)
  /\ out.threw = "none"

(***************************************************************************)
(* C16: what isEquivalent decides                                          *)
(***************************************************************************)
RECURSIVE Follow(_, _, _)
\* The handle a handle stands for: the map is followed until a handle that
\* it does not map.
Follow(s, m, fuel) ==
  IF s \notin DOMAIN m \/ fuel = 0 THEN s ELSE Follow(m[s], m, fuel - 1)

Substituted(s, m) == Follow(s, m, Cardinality(DOMAIN m))

\* No handle of the map leads back into a cycle.
Acyclic(m) == \A s \in DOMAIN m : Substituted(s, m) \notin DOMAIN m

RECURSIVE ScalarsEqual(_, _)
\* Two scalars are equal: sequences element by element, the rest by value.
ScalarsEqual(a, b) ==
  IF a.js = "array" \/ b.js = "array"
  THEN /\ a.js = "array" /\ b.js = "array"
       /\ Len(a.items) = Len(b.items)
       /\ \A i \in DOMAIN a.items : ScalarsEqual(a.items[i], b.items[i])
  ELSE IF a.js = "number" /\ b.js = "number"
  THEN a.kind # "NaN" /\ (a = b \/ (IsZero(a) /\ IsZero(b)))
  ELSE a = b

\* Two scalars are identical: a sequence only to itself, the rest by value.
ScalarsIdentical(a, b) ==
  IF a.js = "array" \/ b.js = "array" THEN a = b ELSE ScalarsEqual(a, b)

PartsEquivalent(p1, p2, m) ==
  IF p1.js = "string" \/ p2.js = "string" THEN p1 = p2
  ELSE p1.n = p2.n /\ Substituted(p1.s, m) = Substituted(p2.s, m)

RECURSIVE Equivalent(_, _, _, _)
\* The relation of the two fragments a and b under the map m, shape by shape;
\* byIdentity chooses how the scalars of two Value nodes are compared.
Equivalent(a, b, m, byIdentity) ==
  IF a.type # b.type THEN FALSE
  ELSE CASE a.type = "RAW" -> a.text = b.text
         [] a.type = "VALUE" ->
              IF byIdentity THEN ScalarsIdentical(a.value, b.value)
              ELSE ScalarsEqual(a.value, b.value)
         [] a.type = "INDENT" -> Equivalent(a.content, b.content, m, byIdentity)
         [] a.type = "PARENS" ->
              a.force = b.force /\ Equivalent(a.content, b.content, m, byIdentity)
         [] a.type = "QUERY" ->
              /\ Len(a.nodes) = Len(b.nodes)
              /\ \A i \in DOMAIN a.nodes : Equivalent(a.nodes[i], b.nodes[i], m, byIdentity)
         [] a.type = "IDENTIFIER" ->
              /\ Len(a.names) = Len(b.names)
              /\ \A i \in DOMAIN a.names : PartsEquivalent(a.names[i], b.names[i], m)
         [] a.type = "PLACEHOLDER" -> Substituted(a.symbol, m) = Substituted(b.symbol, m)
         [] a.type = "SYMBOL_ALIAS" -> a = b

\* isEquivalent has been called on two fragments with a map of a few handles
\* without cycles
EquivalenceOfFragments ==
  /\ CallDone("isEquivalent")
  /\ isSQL(op.sql1) /\ isSQL(op.sql2)
  /\ Cardinality(DOMAIN op.symbolSubstitutes) <= MaxHandles
  /\ Acyclic(op.symbolSubstitutes)

\* C16: isEquivalent(a, b, { symbolSubstitutes }) on two fragments returns
\* true exactly when they have the same shape and: Raw texts are equal; Value
\* scalars are identical (strings, numbers, booleans and null by value, a
\* sequence only when both nodes hold the very same sequence); Indent
\* contents are equivalent; Parens have equal force and equivalent contents;
\* Queries have equal length and pointwise equivalent nodes; Identifier parts
\* match pointwise (strings by equality, tokens by equal mangled description
\* and equal handle after following the substitution map); Placeholders have
\* equal handles after substitution; a SymbolAlias node is equivalent to
\* itself only.
C16_IsEquivalent ==
  EquivalenceOfFragments
    => out = Returned(Equivalent(op.sql1, op.sql2, op.symbolSubstitutes, TRUE))

\* C16 as stated: two Value nodes are equivalent whenever their scalars are
\* equal.
C16_AsStated ==
  EquivalenceOfFragments
    => out = Returned(Equivalent(op.sql1, op.sql2, op.symbolSubstitutes, FALSE))

\* identifier(a, "id") and identifier(b, "id") are equivalent once a is
\* substituted by b
C16_Witness ==
  /\ EquivalenceOfFragments
  /\ op.sql1 = Id(<<symA, Str(<<"i","d">>)>>)
  /\ op.sql2 = Id(<<symB, Str(<<"i","d">>)>>)
  /\ op.symbolSubstitutes = symA :> symB
  /\ out = Returned(TRUE)

\* two tokens of different description are not equivalent although one is
\* substituted by the other
C16_WitnessNames ==
  /\ EquivalenceOfFragments
  /\ op.sql1 = Id(<<symT>>)
  /\ op.sql2 = Id(<<symA>>)
  /\ op.symbolSubstitutes = symT :> symA
  /\ out = Returned(FALSE)

\* value([1]) and value([1]) of two arrays are not equivalent
C16_WitnessArrays ==
  /\ EquivalenceOfFragments
  /\ op.sql1 = arrayValue(1)
  /\ op.sql2 = arrayValue(2)
  /\ out = Returned(FALSE)

\* two symbolAlias(a, b) nodes are not equivalent
C16_WitnessAliases ==
  /\ EquivalenceOfFragments
  /\ op.sql1 = aliasInstance(1)
  /\ op.sql2 = aliasInstance(2)
  /\ out = Returned(FALSE)

(***************************************************************************)
(* C17: replacing a handle by itself                                       *)
(***************************************************************************)
RECURSIVE Mentions(_, _)
\* The handle s occurs in the fragment f: in an Identifier, a Value, a
\* SymbolAlias or a Placeholder, at any depth, a Placeholder's fallback
\* included.
Mentions(f, s) ==
  CASE f.type = "QUERY" -> \E i \in DOMAIN f.nodes : Mentions(f.nodes[i], s)
    [] f.type \in {"INDENT", "PARENS"} -> Mentions(f.content, s)
    [] f.type = "IDENTIFIER" ->
         \E i \in DOMAIN f.names : f.names[i].js # "string" /\ f.names[i].s = s
    [] f.type = "VALUE" -> f.value = s
    [] f.type = "SYMBOL_ALIAS" -> f.a.s = s \/ f.b.s = s
    [] f.type = "PLACEHOLDER" -> f.symbol = s \/ (isSQL(f.fallback) /\ Mentions(f.fallback, s))
    [] OTHER -> FALSE

\* isEquivalent(replaceSymbol(f, s, s), f) has been called on a fragment f
SelfReplacementCompared ==
  /\ CallDone("isEquivalentToOriginal")
  /\ isSQL(op.frag)
  /\ op.needle = op.replacement

\* C17: for every fragment f and handle s, isEquivalent(replaceSymbol(f, s,
\* s), f) returns true.
C17_SelfReplacement == SelfReplacementCompared => out = Returned(TRUE)

\* a query that holds s in an alias, an identifier and a placeholder: the
\* call rebuilds the query, and the alias node stays the one it was
C17_Witness ==
  /\ SelfReplacementCompared
  /\ op.frag.type = "QUERY"
  /\ Mentions(op.frag, op.needle)
  /\ \E i \in DOMAIN op.frag.nodes : op.frag.nodes[i].type = "SYMBOL_ALIAS"
  /\ ~op.replaced.same
  /\ op.replaced.value # op.frag
  /\ out = Returned(TRUE)

\* an alias of s held by a Parens node that the call rebuilds
C17_WitnessNested ==
  /\ SelfReplacementCompared
  /\ op.frag.type = "PARENS"
  /\ op.frag.content.type = "INDENT"
  /\ op.frag.content.content.type = "SYMBOL_ALIAS"
  /\ Mentions(op.frag, op.needle)
  /\ op.replaced.value # op.frag
  /\ out = Returned(TRUE)

(***************************************************************************)
(* C18: replacing a handle by another                                      *)
(***************************************************************************)
RECURSIVE Plain(_)
\* The content of the fragment f, whichever instances hold it.
Plain(f) ==
  LET g == [k \in DOMAIN f \ {"ref"} |-> f[k]]
  IN  CASE f.type = "QUERY" -> [g EXCEPT !.nodes = [i \in DOMAIN f.nodes |-> Plain(f.nodes[i])]]
        [] f.type \in {"INDENT", "PARENS"} -> [g EXCEPT !.content = Plain(f.content)]
        [] f.type = "PLACEHOLDER" /\ isSQL(f.fallback) ->
             [g EXCEPT !.fallback = Plain(f.fallback)]
        [] OTHER -> g

RECURSIVE Rewritten(_, _, _, _)
\* The fragment f with every occurrence of s carrying t instead, and nothing
\* else changed; intoFallbacks tells whether the fallback of a Placeholder is
\* rewritten too.
Rewritten(f, s, t, intoFallbacks) ==
  CASE f.type = "QUERY" ->
         [f EXCEPT !.nodes = [i \in DOMAIN f.nodes |-> Rewritten(f.nodes[i], s, t, intoFallbacks)]]
    [] f.type \in {"INDENT", "PARENS"} ->
         [f EXCEPT !.content = Rewritten(f.content, s, t, intoFallbacks)]
    [] f.type = "IDENTIFIER" ->
         [f EXCEPT !.names = [i \in DOMAIN f.names |->
            IF f.names[i].js # "string" /\ f.names[i].s = s
            THEN getSymbolAndName(t) ELSE f.names[i]]]
    [] f.type = "VALUE" -> IF f.value = s THEN [f EXCEPT !.value = t] ELSE f
    [] f.type = "SYMBOL_ALIAS" ->
         [f EXCEPT !.a = IF f.a.s = s THEN getSymbolAndName(t) ELSE f.a,
                   !.b = IF f.b.s = s THEN getSymbolAndName(t) ELSE f.b]
    [] f.type = "PLACEHOLDER" ->
         [f EXCEPT !.symbol = IF f.symbol = s THEN t ELSE f.symbol,
                   !.fallback = IF intoFallbacks /\ isSQL(f.fallback)
                                THEN Rewritten(f.fallback, s, t, intoFallbacks)
                                ELSE f.fallback]
    [] OTHER -> f

\* replaceSymbol(f, s, t) has been called on a fragment f with s # t
ReplacementDone ==
  /\ CallDone("replaceSymbol")
  /\ isSQL(op.frag)
  /\ op.needle # op.replacement

\* C18 as stated: replaceSymbol(f, s, s') with s # s' replaces exactly the
\* occurrences of s: the result holds no s anywhere (in Identifier tokens, in
\* Indent and Parens contents at any depth, in SymbolAlias sides, in
\* Placeholder handles and in the fragments nested in them, such as the
\* fallback of a Placeholder), every former s now carries s', re-mangled, and
\* everything else is unchanged.
C18_AsStated ==
  ReplacementDone =>
    /\ out.threw = "none"
    /\ ~Mentions(out.value, op.needle)
    /\ Plain(out.value) = Rewritten(Plain(op.frag), op.needle, op.replacement, TRUE)

\* What replaceSymbol does: it replaces the occurrences of s outside the
\* fallbacks of the Placeholders, which it leaves as they are.
C18_OutsideFallbacks ==
  ReplacementDone =>
    /\ out.threw = "none"
    /\ Plain(out.value) = Rewritten(Plain(op.frag), op.needle, op.replacement, FALSE)

\* placeholder(p, identifier(s)) after replaceSymbol(..., s, s') still holds s
C18_FallbackKept ==
  /\ ReplacementDone
  /\ op.frag.type = "PLACEHOLDER"
  /\ isSQL(op.frag.fallback)
  /\ Mentions(op.frag.fallback, op.needle)
  /\ out.threw = "none"
  /\ Mentions(out.value, op.needle)

\* a query whose occurrences of s are all replaced
C18_WitnessReplaced ==
  /\ ReplacementDone
  /\ op.frag.type = "QUERY"
  /\ Mentions(op.frag, op.needle)
  /\ out.threw = "none"
  /\ ~Mentions(out.value, op.needle)
  /\ Mentions(out.value, op.replacement)

(***************************************************************************)
(* C19: development mode and production mode                               *)
(***************************************************************************)
\* One program has been compiled in a process of each mode: `remembered`
\* holds the outcome of the first process, the state that of the second.
BothModesDone ==
  /\ CompileDone
  /\ "program" \in DOMAIN op
  /\ remembered.set

BothModesReturned ==
  /\ BothModesDone
  /\ out.threw = "none"
  /\ remembered.out.threw = "none"

\* The two compiles differ in the rendering only.
SameButRendering ==
  /\ out.value.values = remembered.out.value.values
  /\ PlaceholderNumbers(out.value.text) = PlaceholderNumbers(remembered.out.value.text)
  /\ symbolToIdentifier = remembered.symbolToIdentifier
  /\ assigned = remembered.assigned

\* The outcome of the process in development mode, and of the other
DevOutcome == IF isDev THEN out ELSE remembered.out

ProdOutcome == IF isDev THEN remembered.out ELSE out

\* C19 as stated: development-mode pretty-printing is rendering-only: the
\* same constructor calls compiled in development and in production mode
\* yield the same values, the same `$n` numbering and the same aliases, and
\* compile succeeds in one mode exactly when it succeeds in the other,
\* a query that consists only of, or ends with, a Raw `;` included.
C19_AsStated ==
  BothModesDone =>
    /\ (out.threw = "none") <=> (remembered.out.threw = "none")
    /\ BothModesReturned => SameButRendering

\* What holds: two compiles that both succeed differ in the rendering only,
\* and the one difference in success is the TypeError of development mode.
C19_RenderingOnlyWhenBothReturn ==
  BothModesDone =>
    /\ BothModesReturned => SameButRendering
    /\ ProdOutcome.threw = "none"
    /\ DevOutcome.threw \in {"none", "TypeError"}

\* sql`;` compiles to `;` in production mode and throws in development mode
C19_SemicolonOnly ==
  /\ BothModesDone
  /\ op.sql = semicolonOnly
  /\ ProdOutcome = Returned([text |-> <<";">>, values |-> <<>>])
  /\ DevOutcome = Threw("TypeError")

\* a program with indent calls, aliases and values that compiles in both modes
C19_WitnessBoth ==
  /\ BothModesReturned
  /\ assigned # <<>>
  /\ out.value.text # remembered.out.value.text

\* a query that ends with a Raw `;` after an Indent node compiles in both modes
C19_WitnessEndsWithSemicolon ==
  /\ BothModesReturned
  /\ op.program = 2
  /\ out.value.values = <<IntNum(1)>>

(***************************************************************************)
(* raw (lines 622-648) and its calls, one after another in one process     *)
(***************************************************************************)
MaxRawCalls == 3

MaxBuilt == 2

\* raw(text) that leaves sqlRawWarningOutput as it is.
rawLeavingFlag(text, warningOutput) ==
  [sqlRawWarningOutput |-> warningOutput,
   warned |-> ~warningOutput,
   out |-> IF text.js # "string" THEN Threw("InvalidArgument")
           ELSE Returned(makeRawNode(text.str))]

\* raw(text), lines 629-648, called while the flag is warningOutput: the flag
\* it leaves, whether it called console.warn, and what it returns or throws
raw(text, warningOutput) ==
  [sqlRawWarningOutput |-> TRUE,
   warned |-> ~warningOutput,
   out |-> IF text.js # "string" THEN Threw("InvalidArgument")
           ELSE Returned(makeRawNode(text.str))]

\* What raw() is called with.
RawArgs ==
  { Str(<<>>), Str(<<";">>), Str(<<"n","o","w","(",")">>), Str(<<"1",";"," ","d","r","o","p">>),
    IntNum(1), Undefined, Null, plainObject, V(1), Arr(<<Str(<<"a">>)>>) }

InitRaw ==
  /\ isDev \in BOOLEAN
  /\ InitCommon
  /\ NoRequest
  /\ CapIdle

DoRaw ==
  \E text \in RawArgs :
    LET r == raw(text, sqlRawWarningOutput)
        made == makeRawNodeInterned(r.out.value.text, CACHE_RAW_NODES, created)
    IN  /\ pc = "idle"
        /\ rawCalls < MaxRawCalls
        /\ op' = [name |-> "raw", text |-> text]
        /\ out' = IF r.out.threw = "none" THEN Returned(made.node) ELSE r.out
        /\ sqlRawWarningOutput' = r.sqlRawWarningOutput
        /\ rawCalls' = rawCalls + 1
        /\ rawWarnings' = IF r.warned THEN Append(rawWarnings, rawCalls + 1) ELSE rawWarnings
        /\ rawNodes' = IF r.out.threw = "none" THEN rawNodes \cup {r.out.value.text}
                       ELSE rawNodes
        /\ CACHE_RAW_NODES' = IF r.out.threw = "none" THEN made.cache ELSE CACHE_RAW_NODES
        /\ created' = IF r.out.threw = "none" THEN made.created ELSE created
        /\ UNCHANGED <<isDev, pc, stack, scratch, remembered, request, capVars, built,
                       CACHE_SIMPLE_FRAGMENTS>>

\* The texts of the single-piece templates
SimpleTexts == { <<>>, <<";">>, <<"n","o","w","(",")">> }

\* sql`text`, no more of them than MaxBuilt
DoTemplateSingle ==
  \E first \in SimpleTexts :
    LET r == sqlBaseSingle(first, CACHE_SIMPLE_FRAGMENTS, CACHE_RAW_NODES, created)
    IN  /\ pc = "idle"
        /\ Len(built) < MaxBuilt
        /\ op' = [name |-> "template", text |-> Str(first)]
        /\ out' = Returned(r.node)
        /\ built' = Append(built, r.node)
        /\ CACHE_SIMPLE_FRAGMENTS' = r.simple
        /\ CACHE_RAW_NODES' = r.cache
        /\ created' = r.created
        /\ UNCHANGED <<isDev, pc, stack, scratch, remembered, request, capVars, rawVars>>

NextRaw ==
  \/ DoRaw
  \/ DoTemplateSingle

SpecRaw == InitRaw /\ [][NextRaw]_vars

\* The warning has been logged once, by the first call, if any call was made.
LoggedOnce == rawWarnings = IF rawCalls = 0 THEN <<>> ELSE <<1>>

RawCallStep ==
  /\ LoggedOnce
  /\ LoggedOnce'
  /\ (rawCalls' # rawCalls /\ op'.text.js # "string") =>
       /\ out'.threw # "none"
       /\ rawNodes' = rawNodes

\* C20: over any sequence of raw() calls in one process the warning is logged
\* exactly once, during the first call, and never on any later call; raw()
\* with a non-string argument fails and creates no node.
C20_RawWarning == [][RawCallStep]_vars

\* a third call, with a non-string argument, after the warning of the first
C20_Witness ==
  /\ CallDone("raw")
  /\ rawCalls = MaxRawCalls
  /\ rawWarnings = <<1>>
  /\ op.text = IntNum(1)
  /\ out = Threw("InvalidArgument")
  /\ rawNodes = {<<"n","o","w","(",")">>}

\* a first call with a non-string argument: it warns, fails and makes no node
C20_WitnessFirstFails ==
  /\ CallDone("raw")
  /\ rawCalls = 1
  /\ rawWarnings = <<1>>
  /\ out = Threw("InvalidArgument")
  /\ rawNodes = {}

(***************************************************************************)
(* C21: what a SymbolAlias node does to the aliases                        *)
(***************************************************************************)
\* The alias of the nth token that is given a new alias for description d.
AliasOfNth(d, nth) ==
  IF d # CONSTRUCTOR_NAME
  THEN <<"_","_">> \o d \o (IF nth = 1 THEN <<"_","_">> ELSE <<"_">> \o NatToString(nth))
  ELSE <<"_","_">> \o d \o <<"_">>
       \o (IF nth = 1 THEN <<"N","a","N">>
           ELSE IF nth = 2 THEN <<"_">>
           ELSE NatToString(nth - 1))

\* print is at a SymbolAlias node
AtSymbolAlias ==
  /\ HasItem
  /\ HasTrustMark(Item)
  /\ Item.type = "SYMBOL_ALIAS"

\* the step over a SymbolAlias node that raises no error
SymbolAliasPassed == AtSymbolAlias /\ pc' = "print"

\* an alias bound to a token stays bound to it as long as the walk goes on
AliasesKept ==
  (pc = "print" /\ pc' = "print") =>
    \A s \in DOMAIN symbolToIdentifier :
      s \in DOMAIN symbolToIdentifier' /\ symbolToIdentifier'[s] = symbolToIdentifier[s]

\* every token an Identifier renders is rendered as the alias bound to it
RenderedAsBound ==
  \A i \in DOMAIN rendered' :
    /\ rendered'[i].s \in DOMAIN symbolToIdentifier'
    /\ i > Len(rendered) => rendered'[i].id = symbolToIdentifier'[rendered'[i].s]

SymbolAliasStep ==
  /\ AliasesKept
  /\ RenderedAsBound
  /\ SymbolAliasPassed =>
       LET a == Item.a.s
           b == Item.b.s
           d == Item.a.n
           hasA == a \in DOMAIN symbolToIdentifier
           hasB == b \in DOMAIN symbolToIdentifier
       IN  /\ a \in DOMAIN symbolToIdentifier'
           /\ b \in DOMAIN symbolToIdentifier'
           /\ symbolToIdentifier'[a] = symbolToIdentifier'[b]
           /\ DOMAIN symbolToIdentifier' = DOMAIN symbolToIdentifier \cup {a, b}
           /\ (hasA \/ hasB) =>
                /\ assigned' = assigned
                /\ descCounter' = descCounter
           /\ (~hasA /\ ~hasB) =>
                /\ symbolToIdentifier'[a] = AliasOfNth(d, NthOfDescription(Len(assigned), d) + 1)
                /\ assigned' = Append(assigned, [s |-> a, n |-> d, id |-> symbolToIdentifier'[a]])
                /\ \A e \in DOMAIN descCounter : e # d =>
                     e \in DOMAIN descCounter' /\ descCounter'[e] = descCounter[e]
                /\ DOMAIN descCounter' = DOMAIN descCounter \cup {d}
           /\ Len(stack') = Len(stack)
           /\ stack'[Len(stack)].sqlFragments = Top.sqlFragments
           /\ stack'[Len(stack)].itemIndex = Top.itemIndex + 1
           /\ UNCHANGED <<values, valueCount, rendered>>

\* C21: once a SymbolAlias(a, b) node has been processed without error in a
\* compile, every Identifier occurrence of a or of b later in that walk
\* renders to one and the same alias: if exactly one of the tokens already
\* had an alias the other adopts it, and if neither had one the shared alias
\* is assigned as if a were first seen (derived from the description of a,
\* and consuming a single counter slot for that description); the
\* SymbolAlias node itself emits no text.
C21_SymbolAliasBinds == [][SymbolAliasStep]_vars

\* symbolAlias(x, a) before either is used: a is rendered with the alias of
\* x, and the next token described "u" is the first of its description
C21_Witness ==
  /\ CompileReturned
  /\ op.sql = aliasAcrossNames
  /\ out.value.text = <<"_","_","m","y","_","t","a","b","l","e","_","_"," ","_","_","u","_","_">>

\* symbolAlias(a, x) after x was used: a adopts the alias of x
C21_WitnessAdopts ==
  /\ CompileReturned
  /\ op.sql = aliasAdoptsSecond
  /\ out.value.text = <<"_","_","m","y","_","t","a","b","l","e","_","_"," ","_","_","m","y","_","t","a","b","l","e","_","_"," ","_","_","m","y","_","t","a","b","l","e","_","_">>

\* symbolAlias(a, b) after a was used: b adopts it and the third token
\* described "u" is the second of its description
C21_WitnessSlot ==
  /\ CompileReturned
  /\ op.sql = aliasAdoptsFirst
  /\ out.value.text = <<"_","_","u","_","_"," ","_","_","u","_","_"," ","_","_","u","_","2">>

(***************************************************************************)
(* isParensSafe applied to a text (lines 43-60)                            *)
(***************************************************************************)
MaxText == 4

\* The characters the texts are made of.
TextChars == {"$", "1", ".", "'", "\"", "a", "_", "(", " "}

\* The texts of the heuristic's examples.
ExampleTexts ==
  { <<"$","1">>, <<"1","2">>, <<"0",".","5">>, <<".","5">>, <<"'","a","b","c","'">>, <<"f","o","o">>, <<"\"","F","o","O","\"",".","\"","b","a","r","\"">>,
    <<"s","c","h","e","m","a",".","t","a","b","l","e",".","c","o","l","u","m","n">>, <<"a"," ","="," ","b">>, <<"f","o","o","(","x",")">>, <<"a",":",":","t","e","x","t">>, <<"\"","a",".","b","\"">>,
    <<"\"","a","\"",".","b",".","\"","c","\"">>, <<"'","i","t","'","'","s","'">>, <<"1",".","2",".","3">> }

ParensSafeRequests ==
  { [name |-> "isParensSafe", expr |-> t] :
      t \in SeqUpTo(TextChars, MaxText) \cup ExampleTexts }

InitSafe ==
  /\ isDev = FALSE
  /\ InitCommon
  /\ CapIdle
  /\ request \in ParensSafeRequests

DoIsParensSafe ==
  /\ Requested("isParensSafe")
  /\ op' = request
  /\ out' = Returned(isParensSafe(request.expr))
  /\ UNCHANGED callFrame

NextSafe == DoIsParensSafe

SpecSafe == InitSafe /\ [][NextSafe]_vars

(***************************************************************************)
(* C22: the texts isParensSafe accepts                                     *)
(***************************************************************************)
IsDigits(t) == t # <<>> /\ \A i \in DOMAIN t : t[i] \in Range(DIGITS)

IsWordRun(t) ==
  t # <<>> /\ \A i \in DOMAIN t :
    t[i] \in Range(LOWER) \cup Range(UPPER) \cup Range(DIGITS) \cup {"_"}

\* A string between two quotes q with no q in it; `banned` are the other
\* characters it may not hold, and mayBeEmpty tells whether q q counts.
IsQuotedString(t, q, banned, mayBeEmpty) ==
  /\ Len(t) >= (IF mayBeEmpty THEN 2 ELSE 3)
  /\ t[1] = q
  /\ t[Len(t)] = q
  /\ \A i \in 2..(Len(t) - 1) : t[i] \notin banned \cup {q}

IsNumberText(t) ==
  \/ IsDigits(t)
  \/ \E k \in DOMAIN t :
       /\ t[k] = "."
       /\ k = 1 \/ IsDigits(SubSeq(t, 1, k - 1))
       /\ IsDigits(SubSeq(t, k + 1, Len(t)))

RECURSIVE IsDottedParts(_, _, _)
\* t is part, or part.part, or part.part.part, ...
IsDottedParts(t, banned, mayBeEmpty) ==
  \E k \in 1..Len(t) :
    /\ LET part == SubSeq(t, 1, k)
       IN  IsQuotedString(part, "\"", banned, mayBeEmpty) \/ IsWordRun(part)
    /\ \/ k = Len(t)
       \/ /\ k + 1 < Len(t)
          /\ t[k + 1] = "."
          /\ IsDottedParts(SubSeq(t, k + 2, Len(t)), banned, mayBeEmpty)

\* The texts of the four kinds.
IsSafeText(t, banned, mayBeEmpty) ==
  \/ (Len(t) > 1 /\ t[1] = "$" /\ IsDigits(Tail(t)))
  \/ IsNumberText(t)
  \/ IsQuotedString(t, "'", {}, mayBeEmpty)
  \/ IsDottedParts(t, banned, mayBeEmpty)

ParensSafeDone == CallDone("isParensSafe")

C22_WitnessDotInQuotes ==
  /\ ParensSafeDone
  /\ op.expr = <<"\"","a",".","b","\"">>
  /\ out = Returned(FALSE)

\* `''` is not
C22_WitnessEmptyString ==
  /\ ParensSafeDone
  /\ op.expr = <<"'","'">>
  /\ out = Returned(FALSE)

(***************************************************************************)
(* Fragments built from fragments: calls of the template tag, join,        *)
(* replaceSymbol and parens, each on what the calls before it returned     *)
(***************************************************************************)
BaseFragments == {V(1), Id(<<symA>>)}

\* The fragments a caller holds.
Pool == BaseFragments \cup Range(built)

InitBuild ==
  /\ isDev = FALSE
  /\ InitCommon
  /\ NoRequest
  /\ CapIdle

\* What a constructor call leaves alone.
buildFrame ==
  <<isDev, pc, stack, scratch, remembered, request, capVars, rawVars,
    CACHE_RAW_NODES, CACHE_SIMPLE_FRAGMENTS, created>>

\* The fragment a call returned is kept; a call that threw leaves none.
Collected(result) == IF result.threw = "none" THEN Append(built, result.value) ELSE built

\* sql`${v1}${v2}` and sql`a ${v1}${v2}`
BuildTemplate ==
  \E v1 \in Pool, v2 \in Pool, first \in {<<>>, <<"a"," ">>} :
    LET strings == <<Str(first), Str(<<>>), Str(<<>>)>>
        result == sqlBase(strings, <<v1, v2>>)
    IN  /\ Len(built) < MaxBuilt
        /\ op' = [name |-> "template", strings |-> strings, values |-> <<v1, v2>>]
        /\ out' = result
        /\ built' = Collected(result)
        /\ UNCHANGED buildFrame

\* join([v1, v2], separator)
BuildJoin ==
  \E v1 \in Pool, v2 \in Pool, separator \in {<<>>, <<","," ">>} :
    LET result == join(Arr(<<v1, v2>>), Str(separator))
    IN  /\ Len(built) < MaxBuilt
        /\ op' = [name |-> "join", items |-> Arr(<<v1, v2>>), separator |-> Str(separator)]
        /\ out' = result
        /\ built' = Collected(result)
        /\ UNCHANGED buildFrame

\* replaceSymbol(f, a, b)
BuildReplaceSymbol ==
  \E f \in Pool :
    LET result == replaceSymbol(f, symA, symB)
    IN  /\ Len(built) < MaxBuilt
        /\ op' = [name |-> "replaceSymbol", frag |-> f, needle |-> symA, replacement |-> symB]
        /\ out' = [threw |-> result.threw, value |-> result.value]
        /\ built' = Collected(result)
        /\ UNCHANGED buildFrame

\* parens(f, true)
BuildParens ==
  \E f \in Pool :
    LET result == parens(f, TRUE)
    IN  /\ Len(built) < MaxBuilt
        /\ op' = [name |-> "parens", fragment |-> f, force |-> TRUE]
        /\ out' = result
        /\ built' = Collected(result)
        /\ UNCHANGED buildFrame

NextBuild ==
  \/ BuildTemplate
  \/ BuildJoin
  \/ BuildReplaceSymbol
  \/ BuildParens

SpecBuild == InitBuild /\ [][NextBuild]_vars

(***************************************************************************)
(* C23: Queries never nest                                                 *)
(***************************************************************************)
RECURSIVE IsFlat(_)
\* No Query of the fragment f, at any depth, has a Query among its nodes.
IsFlat(f) ==
  CASE f.type = "QUERY" ->
         \A i \in DOMAIN f.nodes : f.nodes[i].type # "QUERY" /\ IsFlat(f.nodes[i])
    [] f.type \in {"INDENT", "PARENS"} -> IsFlat(f.content)
    [] f.type = "PLACEHOLDER" -> isSQL(f.fallback) => IsFlat(f.fallback)
    [] OTHER -> TRUE

\* The nodes of sql`s1${v1}s2${v2}s3`: a Raw node for each text that is not
\* empty, and the nodes of each value where the value stands.
TemplateNodes(strings, vals) ==
  Concat([k \in 1..(2 * Len(vals) + 1) |->
            IF k % 2 = 0 THEN NodesOf(vals[k \div 2])
            ELSE IF strings[(k + 1) \div 2].str = <<>> THEN <<>>
            ELSE <<[js |-> "object", type |-> "RAW", text |-> strings[(k + 1) \div 2].str,
                    trusted |-> TRUE]>>])

\* C23: after any sequence of template-composer, join and replaceSymbol
\* calls on fragments built by the constructors, no Query node has a Query
\* among its nodes: composing or joining a Query inlines that Query's nodes,
\* in order, at the position where it was inserted.
C23_QueriesNeverNest ==
  /\ \A i \in DOMAIN built : IsFlat(built[i])
  /\ op.name = "template" =>
       /\ out.threw = "none"
       /\ out.value.type = "QUERY"
       /\ out.value.nodes = TemplateNodes(op.strings, op.values)
  /\ op.name = "join" =>
       /\ out.threw = "none"
       /\ out.value.type = "QUERY"
       /\ out.value.nodes = JoinedNodes(op.items.items, op.separator.str)

\* a Query of two Queries: the nodes of both, after the text
C23_Witness ==
  /\ Len(built) = MaxBuilt
  /\ op.name = "template"
  /\ op.values[1].type = "QUERY"
  /\ op.values[2].type = "QUERY"
  /\ op.strings[1].str # <<>>
  /\ Len(out.value.nodes) = 1 + Len(op.values[1].nodes) + Len(op.values[2].nodes)

\* a Query whose nodes were rewritten by replaceSymbol
C23_WitnessReplaced ==
  /\ Len(built) = MaxBuilt
  /\ op.name = "replaceSymbol"
  /\ op.frag.type = "QUERY"
  /\ out.value # op.frag
  /\ out.value.type = "QUERY"

\* a Query in a Parens node keeps its nodes
C23_WitnessParens ==
  /\ Len(built) = MaxBuilt
  /\ op.name = "parens"
  /\ op.fragment.type = "QUERY"
  /\ out.value.type = "PARENS"
  /\ out.value.content.type = "QUERY"

(***************************************************************************)
(* C24: isEquivalent on bare handles                                       *)
(***************************************************************************)
IsHandle(v) == v.js = "symbol"

\* a call of isEquivalent with a handle as an argument has returned
HandleCompared ==
  /\ op.name = "isEquivalent"
  /\ IsHandle(op.sql1) \/ IsHandle(op.sql2)

\* The handle the map sends h to, h itself when the map has no entry for it.
MappedTo(h, m) == IF IsHandle(h) /\ h \in DOMAIN m THEN m[h] ELSE h

\* Equivalence of a handle with anything, whichever side the handle is on.
HandleEquivalent(a, b, m) ==
  IF IsHandle(a) /\ a \in DOMAIN m THEN m[a] = b
  ELSE IF IsHandle(b) /\ b \in DOMAIN m THEN m[b] = a
  ELSE a = b

\* C24: when either argument of isEquivalent is a bare handle, the
\* substitution map is consulted for it: a handle the map sends to x is
\* equivalent to x and to nothing else, an unmapped handle is equivalent only
\* to itself, and the answer is the same with the arguments exchanged.
C24_AsStated ==
  HandleCompared =>
    /\ out = Returned(HandleEquivalent(op.sql1, op.sql2, op.symbolSubstitutes))
    /\ out = isEquivalent(op.sql2, op.sql1, op.symbolSubstitutes)

\* C24, as the code answers: the two arguments are the same value, or the
\* first is a handle the map sends to the second.
C24_FirstArgumentOnly ==
  HandleCompared =>
    out = Returned(\/ op.sql1 = op.sql2
                   \/ /\ IsHandle(op.sql1)
                      /\ op.sql1 \in DOMAIN op.symbolSubstitutes
                      /\ op.symbolSubstitutes[op.sql1] = op.sql2)

\* isEquivalent(a, b, {a -> b}) is true
C24_WitnessMappedFirst ==
  /\ HandleCompared
  /\ op.sql1 = symA /\ op.sql2 = symB
  /\ op.symbolSubstitutes = (symA :> symB)
  /\ out = Returned(TRUE)

\* isEquivalent(b, a, {a -> b}) is false
C24_WitnessMappedSecond ==
  /\ HandleCompared
  /\ op.sql1 = symB /\ op.sql2 = symA
  /\ op.symbolSubstitutes = (symA :> symB)
  /\ out = Returned(FALSE)

(***************************************************************************)
(* C25: resolving a handle through the substitution map                    *)
(***************************************************************************)
RECURSIVE Walked(_, _, _)
\* The handles passed, in order, after n more hops along the map, fewer
\* when a handle that the map sends nowhere is reached.
Walked(passed, n, m) ==
  IF n = 0 \/ passed[Len(passed)] \notin DOMAIN m THEN passed
  ELSE IF n = 1 THEN Append(passed, m[passed[Len(passed)]])
  ELSE LET firstHalf == Walked(passed, n \div 2, m)
       IN  Walked(firstHalf, n - (n \div 2), m)

\* The handles on the chain that starts at s: no chain passes more handles
\* than the map has entries before it ends or repeats.
ChainFrom(s, m) == Range(Walked(<<s>>, Cardinality(DOMAIN m), m))

\* What resolving s through m comes to: the chain from s ends in a handle
\* the map does not send anywhere, or it runs into a handle sent to itself,
\* or it comes back to a handle it has passed; and it is given up once
\* SUBSTITUTE_DEPTH handles have been looked up.
Resolved(s, m) ==
  LET chain == ChainFrom(s, m)
      ends == chain \ DOMAIN m
      lookups == IF ends = {} /\ \A h \in chain : m[h] # h
                 THEN Cardinality(chain) + 1 ELSE Cardinality(chain)
  IN  IF lookups > SUBSTITUTE_DEPTH THEN Threw("SubstitutionTooDeep")
      ELSE IF ends # {} THEN Returned(CHOOSE e \in ends : TRUE)
      ELSE IF \E h \in chain : m[h] = h THEN Threw("SelfSubstitution")
      ELSE Threw("SubstitutionCycle")

\* isEquivalent has been called on identifier(s1) and identifier(s2), two
\* nodes of one handle each
HandlesResolved ==
  /\ CallDone("isEquivalent")
  /\ op \in ResolveRequests

\* C25: resolving a handle through the substitution map always terminates:
\* the chain is followed for at most 1000 hops, an error is raised when a
\* handle maps to itself, when a handle repeats on the chain or when the
\* bound is exhausted, and otherwise the last, unmapped handle of the chain
\* is returned; isEquivalent ends with an answer or an error on every map.
C25_Resolution ==
  HandlesResolved =>
    LET first == Resolved(op.sql1.names[1].s, op.symbolSubstitutes)
        second == Resolved(op.sql2.names[1].s, op.symbolSubstitutes)
    IN  /\ getSubstitute(op.sql1.names[1].s, op.symbolSubstitutes) = first
        /\ getSubstitute(op.sql2.names[1].s, op.symbolSubstitutes) = second
        /\ out = IF first.threw # "none" THEN first
                 ELSE IF second.threw # "none" THEN second
                 ELSE Returned(first.value = second.value)

\* a -> b -> a: the cycle is an error
C25_Witness ==
  /\ HandlesResolved
  /\ op.sql1.names[1].s = symA
  /\ op.symbolSubstitutes = (symA :> symB) @@ (symB :> symA)
  /\ out = Threw("SubstitutionCycle")

\* a -> b -> b: a handle mapped to itself is an error
C25_WitnessSelf ==
  /\ HandlesResolved
  /\ op.sql1.names[1].s = symA
  /\ op.symbolSubstitutes = (symA :> symB) @@ (symB :> symB)
  /\ out = Threw("SelfSubstitution")

\* a -> b -> e and e: both resolve to e
C25_WitnessChain ==
  /\ HandlesResolved
  /\ op.sql1.names[1].s = symA
  /\ op.sql2.names[1].s = symE
  /\ op.symbolSubstitutes = (symA :> symB) @@ (symB :> symE)
  /\ out = Returned(TRUE)

\* a chain of 1000 hops is given up
C25_WitnessTooDeep ==
  /\ HandlesResolved
  /\ op.symbolSubstitutes = longChain
  /\ out = Threw("SubstitutionTooDeep")

\* a chain of 999 hops is followed to its end
C25_WitnessDeep ==
  /\ HandlesResolved
  /\ op.symbolSubstitutes = longChain
  /\ out = Returned(TRUE)

(***************************************************************************)
(* C26: the nodes replaceSymbol shares with its input                      *)
(***************************************************************************)
\* The fragment f is an Indent or a Parens node, or a Query with one among
\* its nodes.
HasWrapper(f) ==
  \/ f.type \in {"INDENT", "PARENS"}
  \/ /\ f.type = "QUERY"
     /\ \E i \in DOMAIN f.nodes : f.nodes[i].type \in {"INDENT", "PARENS"}

RECURSIVE Shares(_, _, _, _)
\* The fragment `result` holds, at its place, every node instance of the
\* fragment `input` beneath which s does not occur; wrappersToo tells whether
\* that is asked of Indent and Parens nodes, and of the Queries holding them.
Shares(input, result, s, wrappersToo) ==
  IF ~Mentions(input, s) /\ (wrappersToo \/ ~HasWrapper(input)) THEN result = input
  ELSE CASE input.type = "QUERY" ->
              /\ result.type = "QUERY"
              /\ Len(result.nodes) = Len(input.nodes)
              /\ \A i \in DOMAIN input.nodes :
                   Shares(input.nodes[i], result.nodes[i], s, wrappersToo)
         [] input.type \in {"INDENT", "PARENS"} ->
              /\ result.type = input.type
              /\ Shares(input.content, result.content, s, wrappersToo)
         [] input.type = "PLACEHOLDER" -> result.fallback = input.fallback
         [] OTHER -> TRUE

\* replaceSymbol(f, s, t) has been called on a fragment f of which every
\* node is an instance the caller holds
ReplacedInOriginal ==
  /\ CallDone("replaceSymbol")
  /\ op.frag \in ReplaceSymbolFragments

\* C26: replaceSymbol preserves structural sharing: for every node of the
\* input beneath which the needle does not occur, the result contains that
\* very node instance rather than a copy; replaceSymbol(f, s, t) returns f
\* itself when s occurs nowhere in f.
C26_AsStated ==
  ReplacedInOriginal =>
    /\ out.threw = "none"
    /\ Shares(op.frag, out.value, op.needle, TRUE)
    /\ ~Mentions(op.frag, op.needle) => out.same /\ out.value = op.frag

\* C26, as the code shares: an Indent or a Parens node is always built
\* anew, and with it the Query that holds one; every other node beneath
\* which the needle does not occur is the instance of the input.
C26_SharingButWrappers ==
  ReplacedInOriginal =>
    /\ out.threw = "none"
    /\ Shares(op.frag, out.value, op.needle, FALSE)
    /\ ~Mentions(op.frag, op.needle) /\ ~HasWrapper(op.frag)
         => out.same /\ out.value = op.frag

\* indent(alias(b, e)) without a: the Indent node of the result is a new one
C26_WitnessIndentRebuilt ==
  /\ ReplacedInOriginal
  /\ op.needle = symA
  /\ op.frag = Original(makeIndentNode(symbolAlias(symB, symE)))
  /\ ~out.same
  /\ out.value # op.frag
  /\ out.value.content = op.frag.content

\* a Query without a and without wrappers is returned itself
C26_WitnessQueryKept ==
  /\ ReplacedInOriginal
  /\ op.needle = symA
  /\ op.frag.type = "QUERY"
  /\ ~Mentions(op.frag, symA)
  /\ out.same
  /\ out.value = op.frag

\* a Query with a in one node keeps the instances of its other nodes
C26_WitnessNodesKept ==
  /\ ReplacedInOriginal
  /\ op.needle = symA /\ op.replacement = symB
  /\ op.frag.type = "QUERY"
  /\ Mentions(op.frag, symA)
  /\ ~out.same
  /\ \E i \in DOMAIN op.frag.nodes :
       /\ ~Mentions(op.frag.nodes[i], symA)
       /\ out.value.nodes[i] = op.frag.nodes[i]

(***************************************************************************)
(* C27: interning over a sequence of raw() and single-piece template calls *)
(***************************************************************************)
\* The step is a call of raw() or of a single-piece template that returned.
InternCall ==
  /\ rawCalls' # rawCalls \/ built' # built
  /\ out'.threw = "none"

\* The call of the step went through makeRawNode.
MadeRawNode ==
  \/ rawCalls' # rawCalls
  \/ /\ built' # built
     /\ op'.text.str # <<>>
     /\ op'.text.str \notin DOMAIN CACHE_SIMPLE_FRAGMENTS

InternStep ==
  \* a Raw node returned for text t has text t
  /\ InternCall => out'.value.type = "RAW" /\ out'.value.text = op'.text.str
  \* the simple-template cache never loses or changes an entry, and a
  \* template call returns the entry of its text, blank for the empty text
  /\ \A t \in DOMAIN CACHE_SIMPLE_FRAGMENTS :
       /\ t \in DOMAIN CACHE_SIMPLE_FRAGMENTS'
       /\ CACHE_SIMPLE_FRAGMENTS'[t] = CACHE_SIMPLE_FRAGMENTS[t]
  /\ built' # built =>
       IF op'.text.str = <<>> THEN out'.value = blank
       ELSE /\ op'.text.str \in DOMAIN CACHE_SIMPLE_FRAGMENTS'
            /\ CACHE_SIMPLE_FRAGMENTS'[op'.text.str] = out'.value
  \* so that all template calls with one text returned one instance
  /\ \A i \in DOMAIN built', j \in DOMAIN built' :
       built'[i].text = built'[j].text => built'[i] = built'[j]
  \* raw(t) returns the instance the Raw cache holds for t, which is the one
  \* the last call that made a node for t returned, for as long as the entry
  \* of t stays in the cache
  /\ (InternCall /\ rawCalls' # rawCalls /\ LruHas(CACHE_RAW_NODES, op'.text.str)) =>
       out'.value = LruPeek(CACHE_RAW_NODES, op'.text.str)
  /\ (InternCall /\ MadeRawNode) =>
       /\ LruHas(CACHE_RAW_NODES', op'.text.str)
       /\ LruPeek(CACHE_RAW_NODES', op'.text.str) = out'.value
  /\ \A i \in DOMAIN CACHE_RAW_NODES :
       LruHas(CACHE_RAW_NODES', CACHE_RAW_NODES[i].key) =>
         LruPeek(CACHE_RAW_NODES', CACHE_RAW_NODES[i].key) = CACHE_RAW_NODES[i].value
  \* the cache is bounded
  /\ Len(CACHE_RAW_NODES') <= MaxLength

\* C27: interning is consistent over any sequence of constructions: a Raw
\* node returned for text t always has text t; two single-piece template
\* calls with the same text return the same node instance no matter what was
\* constructed in between; and two raw(t) calls return the same instance as
\* long as t has not been evicted from the bounded cache of most recently
\* used Raw nodes between them.
C27_Interning == [][InternStep]_vars

\* sql`;` twice, the text ; evicted from the Raw cache in between: one instance
C27_Witness ==
  /\ Len(built) = 2
  /\ built[1].text = <<";">>
  /\ built[2] = built[1]
  /\ ~LruHas(CACHE_RAW_NODES, <<";">>)
  /\ created > 1

\* raw(";") twice with nothing in between: one instance
C27_WitnessRawTwice ==
  /\ op.name = "raw"
  /\ rawCalls = 2
  /\ created = 1
  /\ out.threw = "none"
  /\ out.value.ref = 1

\* raw(";") after ; was evicted: a new instance, not the one sql`;` returns
C27_WitnessEvicted ==
  /\ op.name = "raw"
  /\ op.text = Str(<<";">>)
  /\ <<";">> \in DOMAIN CACHE_SIMPLE_FRAGMENTS
  /\ out.threw = "none"
  /\ out.value # CACHE_SIMPLE_FRAGMENTS[<<";">>]

\* raw("") once blank was evicted: a Raw node of the empty text that is not blank
C27_WitnessBlankEvicted ==
  /\ op.name = "raw"
  /\ op.text = Str(<<>>)
  /\ out.threw = "none"
  /\ out.value # blank

(***************************************************************************)
(* C28: the end of compile                                                 *)
(***************************************************************************)
\* The handles that print is resolving from the caller's map, outermost
\* first: each activation but the last waits at an item for the activation
\* above it.
PendingHandles ==
  LET waits == [k \in 1..(Len(stack) - 1) |-> stack[k].items[stack[k].itemIndex + 1]]
      resolved == SelectSeq(waits,
                            LAMBDA item : /\ isSQL(item)
                                          /\ item.type = "PLACEHOLDER"
                                          /\ item.symbol \in DOMAIN op.placeholderValues
                                          /\ ~IsNullish(op.placeholderValues[item.symbol]))
  IN  [k \in DOMAIN resolved |-> resolved[k].symbol]

\* C28: compile terminates - it returns a result or raises an error - for
\* every finite fragment and every placeholder map, the maps included in
\* which the fragment supplied for a handle holds a Placeholder of that
\* handle: print never resolves a handle from the map within its resolution
\* of the same handle, from where it would resolve it again, without end.
C28_AsStated ==
  pc = "print" =>
    \A i \in DOMAIN PendingHandles, j \in DOMAIN PendingHandles :
      i # j => PendingHandles[i] # PendingHandles[j]

\* C28 for the maps that lead from no handle back to it: the walk of
\* compile(placeholder(p), {p -> placeholder(q), q -> value}) has ended
C28_WitnessChainEnds ==
  /\ CompileDone
  /\ op.placeholderValues = placeholderChain
  /\ out.threw = "none"
  /\ out.value.values = <<IntNum(2)>>

\* p within p within p: the stack of compile(placeholder(p), {p -> placeholder(p)})
C28_WitnessSelf ==
  /\ pc = "print"
  /\ op.placeholderValues = placeholderSelf
  /\ Len(stack) = MaxDepth
  /\ \A k \in DOMAIN stack : stack[k] = stack[1]
  /\ values = <<>>

\* p within q within p
C28_WitnessEachOther ==
  /\ pc = "print"
  /\ op.placeholderValues = placeholderEachOther
  /\ Len(PendingHandles) >= 3
  /\ PendingHandles[1] = symP /\ PendingHandles[2] = symQ /\ PendingHandles[3] = symP

(***************************************************************************)
(* C29: equivalent fragments compiled with one placeholder map             *)
(***************************************************************************)
\* compile(a, m) and compile(b, m) have ended, isEquivalent(a, b) being true
BothCompiled ==
  /\ CompileDone
  /\ "first" \in DOMAIN op

\* C29: if isEquivalent(a, b) returns true with no symbol substitutions,
\* then for every placeholder map compile(a) and compile(b) either both fail
\* or produce identical text and identical values, also when a and b hold
\* Placeholder nodes of one handle with different fallbacks.
C29_AsStated ==
  BothCompiled =>
    IF out.threw = "none" THEN op.first = out ELSE op.first.threw # "none"

\* C29 with the map supplying every Placeholder handle of a and b: the
\* fallbacks are not read, and the two compiles agree.
C29_WhenSupplied ==
  (BothCompiled /\ \A f \in {op.firstSql, op.sql} :
                     f.type = "PLACEHOLDER" => f.symbol \in DOMAIN op.placeholderValues) =>
    IF out.threw = "none" THEN op.first = out ELSE op.first.threw # "none"

\* placeholder(p, 1) and placeholder(p, 3) are equivalent and compile to
\* different values
C29_WitnessFallbacks ==
  /\ BothCompiled
  /\ op.firstSql = placeholder(symP, V(1))
  /\ op.sql = placeholder(symP, V(3))
  /\ op.first.threw = "none" /\ out.threw = "none"
  /\ op.first.value.values = <<IntNum(1)>>
  /\ out.value.values = <<IntNum(3)>>
  /\ out.value.text = op.first.value.text

\* placeholder(p) fails where its equivalent placeholder(p, 3) compiles
C29_WitnessOneFails ==
  /\ BothCompiled
  /\ op.firstSql = placeholder(symP, Undefined)
  /\ op.sql = placeholder(symP, V(3))
  /\ op.first.threw # "none"
  /\ out.threw = "none"

\* with p supplied the two compile alike
C29_WitnessSupplied ==
  /\ BothCompiled
  /\ op.firstSql = placeholder(symP, V(1))
  /\ op.sql = placeholder(symP, V(3))
  /\ op.placeholderValues = (symP :> V(2))
  /\ out = op.first
  /\ out.value.values = <<IntNum(2)>>


(***************************************************************************)
(* C30.  Within one compile the map from tokens to aliases is injective up *)
(* to SymbolAlias: at every point of the walk two tokens that no           *)
(* SymbolAlias node has joined, directly or transitively, never hold the   *)
(* same alias, whether or not their mangled descriptions are equal (the    *)
(* second token described `u` and the first token described `u_2` get      *)
(* `__u_2` and `__u_2__`), and a step of the walk never changes or drops   *)
(* the alias a token already holds.                                        *)
(***************************************************************************)
\* The SymbolAlias pairs of the walk both of whose tokens hold an alias.
JoinedPairs == {p \in AliasPairs(Walk) : p \subseteq DOMAIN symbolToIdentifier}

AliasesInjective ==
  \A x, y \in DOMAIN symbolToIdentifier :
    (x # y /\ symbolToIdentifier[x] = symbolToIdentifier[y])
      => y \in JoinedTo({x}, JoinedPairs)

\* A step of the walk, its last one included, leaves every held alias as it is.
AliasNeverChanged ==
  pc = "print" =>
    \A x \in DOMAIN symbolToIdentifier :
      /\ x \in DOMAIN symbolToIdentifier'
      /\ symbolToIdentifier'[x] = symbolToIdentifier[x]

C30_AliasInjective == []AliasesInjective /\ [][AliasNeverChanged]_vars

\* identifier(u_2, u, u): the first `u_2` and the second `u` differ.
C30_Witness ==
  /\ CompileReturned
  /\ op.sql = suffixBefore
  /\ symbolToIdentifier[symU2] = <<"_","_","u","_","2","_","_">>
  /\ symbolToIdentifier[symB] = <<"_","_","u","_","2">>
  /\ out.value.text = <<"_","_","u","_","2","_","_",".","_","_","u","_","_",".","_","_","u","_","2">>

\* identifier(u, u, u_2): the same in the other order.
C30_WitnessAfter ==
  /\ CompileReturned
  /\ op.sql = suffixAfter
  /\ out.value.text = <<"_","_","u","_","_",".","_","_","u","_","2",".","_","_","u","_","2","_","_">>

\* Joined tokens of different descriptions share one alias, and the token
\* that got it first keeps it.
C30_WitnessJoined ==
  /\ CompileReturned
  /\ op.sql = suffixJoined
  /\ symbolToIdentifier[symU2] = symbolToIdentifier[symA]
  /\ out.value.text = <<"_","_","u","_","2","_","_"," ","_","_","u","_","_"," ","_","_","u","_","2","_","_">>

====
